---- MODULE Spec2Model ----
(***************************************************************************)
(* A model of skforecast's recursive autoregressive forecaster             *)
(* (src/skforecast/ForecasterAutoreg.py) and of the splitter, the          *)
(* cross-validation, the backtesting and the grid search of                *)
(* src/skforecast/model_selection.py.  The forecaster object is one        *)
(* record; every method is an operator from the object and the call's      *)
(* arguments to the object after the call, the value returned and the      *)
(* exception raised, and one action applies it.                            *)
(*                                                                         *)
(* Optional values (Python's None) are sequences of length 0 or 1.         *)
(* A pandas Series is a record [type, index, values]; its index is a       *)
(* record [kind, start, stop, freq] standing for the positions             *)
(* start .. stop-1 (kind "RangeIndex", or "DatetimeIndex" whose freq is 1  *)
(* when the index has a frequency and 0 when it has none).                 *)
(***************************************************************************)
EXTENDS Integers, Sequences, FiniteSets, TLC

VARIABLES
    forecaster,   \* the ForecasterAutoreg object
    ret,          \* the latest call: [op, args, err, value]
    recorded,     \* set_out_sample_residuals calls that returned since the latest fit
    latest_fit    \* "never", or how the latest fit ended: "returned", "raised"

vars == <<forecaster, ret, recorded, latest_fit>>

----------------------------------------------------------------------------
(* Bounds of the model                                                     *)

\* the longest series handed to fit
MaxLen == 4
\* the largest lag asked for as an int
MaxLag == 2
\* the calls of set_out_sample_residuals between two fits
MaxOut == 1
\* the largest `steps` and the longest window of the predictions compared
MaxSteps == 3
MaxWindow == 3
\* the largest `steps` of the bootstrapped intervals
MaxBootSteps == 2
\* the longest series split into folds and the largest `steps` of a fold
MaxSplitLen == 7
MaxFoldSteps == 3
\* the series cross-validated and the largest `steps` of its folds
MaxCvLen == 6
MaxCvSteps == 2

\* at most this many residuals are stored
MaxResiduals == 1000

----------------------------------------------------------------------------
(* Python values                                                           *)

None == <<>>
Some(x) == <<x>>
Get(o) == o[1]

\* np.nan: a missing observation
NaN == -99

\* percentiles are given out of a hundred
Hundred == 100

Max(a, b) == IF a >= b THEN a ELSE b
Min(a, b) == IF a <= b THEN a ELSE b

SeqMax(s) == CHOOSE x \in {s[i] : i \in DOMAIN s} : \A j \in DOMAIN s : s[j] <= x
SeqMin(s) == CHOOSE x \in {s[i] : i \in DOMAIN s} : \A j \in DOMAIN s : x <= s[j]

\* s[a:] and s[-k:] of a Python sequence, 0-based a
From(s, a) == SubSeq(s, Min(a, Len(s)) + 1, Len(s))
Tail_k(s, k) == IF k = 0 THEN s ELSE SubSeq(s, Max(Len(s) - k, 0) + 1, Len(s))

RangeIndex(start, stop) ==
    [kind |-> "RangeIndex", start |-> start, stop |-> stop, freq |-> 1]
Series(index, values) == [type |-> "Series", index |-> index, values |-> values]

\* the pieces of a call's outcome
Ok(self, value) == [self |-> self, err |-> "none", value |-> value]
Raise(self, e) == [self |-> self, err |-> e, value |-> None]

----------------------------------------------------------------------------
(* The wrapped regressor: fit(X, y) leaves a linear model, predict(X)      *)
(* applies it to one feature row.                                          *)

RECURSIVE Dot(_, _, _)
Dot(w, row, j) ==
    IF j > Len(row) THEN 0
    ELSE (IF w = "ones" THEN 1 ELSE j) * row[j] + Dot(w, row, j + 1)

regressor_predict(model, row) == model.b + Dot(model.w, row, 1)

\* the regressor handed to the forecaster: not fitted, its parameters at
\* their defaults
Regressor == [coef |-> None, params |-> [b |-> 0, w |-> "ones"]]

----------------------------------------------------------------------------
(* __init__ and set_lags                                                   *)

\* the validation of lags, were it to look at ints only
lags_error_of_ints(lags) ==
    IF lags.type = "int" /\ lags.n < 1 THEN "lags_min"
    ELSE IF lags.type \in {"list", "range", "ndarray"} /\ lags.items = <<>>
         THEN "lags_empty"
    ELSE IF lags.type \notin {"int", "list", "range", "ndarray"} THEN "lags_type"
    ELSE "none"

lags_error(lags) ==
    IF lags.type = "int" /\ lags.n < 1 THEN "lags_min"
    ELSE IF lags.type \in {"list", "range", "ndarray"} /\ lags.items = <<>>
         THEN "lags_empty"
    ELSE IF lags.type \in {"list", "range", "ndarray"} /\ SeqMin(lags.items) < 1
         THEN "lags_min"
    ELSE IF lags.type \notin {"int", "list", "range", "ndarray"} THEN "lags_type"
    ELSE "none"

lags_array(lags) ==
    IF lags.type = "int" THEN [i \in 1..lags.n |-> i] ELSE lags.items

__init__(regressor, lags) ==
    [regressor            |-> regressor,
     y_index_type         |-> None,
     y_index_freq         |-> None,
     training_range       |-> None,
     last_window          |-> None,
     included_exog        |-> FALSE,
     exog_type            |-> None,
     exog_col_names       |-> None,
     in_sample_residuals  |-> None,
     out_sample_residuals |-> None,
     fitted               |-> FALSE,
     lags                 |-> lags_array(lags),
     max_lag              |-> SeqMax(lags_array(lags)),
     window_size          |-> SeqMax(lags_array(lags))]

\* set_lags, were window_size left as it was
set_lags_keeping_window_size(self, lags) ==
    IF lags_error(lags) # "none" THEN Raise(self, lags_error(lags))
    ELSE Ok([self EXCEPT !.lags = lags_array(lags),
                         !.max_lag = SeqMax(lags_array(lags))], None)

\* set_lags, were it to put the forecaster back to unfitted
set_lags_unfitting(self, lags) ==
    IF lags_error(lags) # "none" THEN Raise(self, lags_error(lags))
    ELSE Ok([self EXCEPT !.lags = lags_array(lags),
                         !.max_lag = SeqMax(lags_array(lags)),
                         !.window_size = SeqMax(lags_array(lags)),
                         !.fitted = FALSE,
                         !.last_window = None], None)

set_lags(self, lags) ==
    IF lags_error(lags) # "none" THEN Raise(self, lags_error(lags))
    ELSE Ok([self EXCEPT !.lags = lags_array(lags),
                         !.max_lag = SeqMax(lags_array(lags)),
                         !.window_size = SeqMax(lags_array(lags))], None)

\* self.regressor.set_params(**params): the parameters named take their new
\* values, a name the regressor does not have is refused
set_params(self, params) ==
    IF \E k \in DOMAIN params : k \notin DOMAIN self.regressor.params
    THEN Raise(self, "value_error")
    ELSE Ok([self EXCEPT !.regressor.params =
                [k \in DOMAIN @ |-> IF k \in DOMAIN params THEN params[k] ELSE @[k]]],
            None)

----------------------------------------------------------------------------
(* Input checks and index normalisation                                    *)

HasNaN(values) == \E i \in DOMAIN values : values[i] = NaN

_check_y(y) ==
    IF y.type # "Series" THEN "y_not_series"
    ELSE IF HasNaN(y.values) THEN "y_missing"
    ELSE "none"

_check_last_window(last_window) ==
    IF last_window.type # "Series" THEN "last_window_not_series"
    ELSE IF HasNaN(last_window.values) THEN "last_window_missing"
    ELSE "none"

_check_exog(exog) ==
    IF exog.type \notin {"Series", "DataFrame"} THEN "exog_type" ELSE "none"

_preproces_y(y) ==
    IF y.index.kind = "DatetimeIndex" /\ y.index.freq # 0 THEN y
    ELSE [y EXCEPT !.index = RangeIndex(0, Len(y.values))]

_preproces_exog(exog) ==
    IF exog.index.kind = "DatetimeIndex" /\ exog.index.freq # 0 THEN exog
    ELSE [exog EXCEPT !.index = RangeIndex(0, Len(exog.values))]

\* (exog.index[:len(y)] == y.index).all(), for len(exog) = len(y)
_check_aligment_y_exog(y, exog) ==
    IF exog # None /\ Get(exog).index # y.index /\ Len(y.values) > 0
    THEN "not_aligned" ELSE "none"

\* the index of `steps` positions that follows index[-1]
_expand_index(index, steps) ==
    [kind  |-> index.kind,
     start |-> index.stop,
     stop  |-> index.stop + steps,
     freq  |-> index.freq]

----------------------------------------------------------------------------
(* The lag matrix                                                          *)

\* the lag matrix, were its columns left as the rows were filled and not
\* selected by X_data.iloc[:, -self.lags]
_create_lags_unselected(self, y) ==
    LET n_splits == Len(y.values) - self.max_lag
        window(i) == SubSeq(y.values, i, i + self.max_lag - 1)
    IN  IF n_splits < 0 THEN [err |-> "negative_dimensions", X |-> <<>>, y |-> <<>>,
                              index |-> y.index]
        ELSE IF Len(self.lags) # self.max_lag
             THEN [err |-> "shape_mismatch", X |-> <<>>, y |-> <<>>, index |-> y.index]
        ELSE [err   |-> "none",
              X     |-> [i \in 1..n_splits |-> window(i)],
              y     |-> [i \in 1..n_splits |-> y.values[self.max_lag + i]],
              index |-> [y.index EXCEPT !.start = @ + self.max_lag]]

\* One row per target position, one column per lag; the rows are filled
\* from the max_lag-wide window y[i : i+max_lag] and the columns selected
\* by position -lag from its end.
_create_lags(self, y) ==
    LET n_splits == Len(y.values) - self.max_lag
        window(i) == SubSeq(y.values, i, i + self.max_lag - 1)
    IN  IF n_splits < 0 THEN [err |-> "negative_dimensions", X |-> <<>>, y |-> <<>>,
                              index |-> y.index]
        ELSE IF Len(self.lags) # self.max_lag
             THEN [err |-> "shape_mismatch", X |-> <<>>, y |-> <<>>, index |-> y.index]
        ELSE [err   |-> "none",
              X     |-> [i \in 1..n_splits |->
                           [c \in 1..Len(self.lags) |->
                              window(i)[self.max_lag - self.lags[c] + 1]]],
              y     |-> [i \in 1..n_splits |-> y.values[self.max_lag + i]],
              index |-> [y.index EXCEPT !.start = @ + self.max_lag]]

\* series.iloc[-k:]
iloc_tail(index, values, k) ==
    Series([index EXCEPT !.start = Max(index.start, index.stop - k)],
           Tail_k(values, k))

\* exog.iloc[max_lag:] joined column-wise to the lag rows
_create_train_X_y(self, y, exog) ==
    LET XY == _create_lags(self, y)
    IN  IF XY.err # "none" \/ exog = None THEN XY
        ELSE [XY EXCEPT !.X = [i \in 1..Len(XY.X) |->
                                 Append(XY.X[i], Get(exog).values[self.max_lag + i])]]
----------------------------------------------------------------------------
(* fit                                                                     *)

\* np.random.choice(a, size, replace=False): one of the selections a seed
\* can give
random_choice(a, size, seed) ==
    IF seed = "head" THEN SubSeq(a, 1, size) ELSE SubSeq(a, Len(a) - size + 1, Len(a))

\* the reset, were it to leave the out-of-sample residuals in place
fit_reset_keeping_out_sample(self) ==
    [self EXCEPT !.y_index_type         = None,
                 !.y_index_freq         = None,
                 !.last_window          = None,
                 !.included_exog        = FALSE,
                 !.exog_type            = None,
                 !.exog_col_names       = None,
                 !.in_sample_residuals  = None,
                 !.fitted               = FALSE,
                 !.training_range       = None]

\* the reset, were it to leave what an earlier fit noted of its exog
fit_reset_keeping_exog(self) ==
    [self EXCEPT !.y_index_type         = None,
                 !.y_index_freq         = None,
                 !.last_window          = None,
                 !.in_sample_residuals  = None,
                 !.out_sample_residuals = None,
                 !.fitted               = FALSE,
                 !.training_range       = None]

\* the fields fit clears before it looks at its arguments
fit_reset(self) ==
    [self EXCEPT !.y_index_type         = None,
                 !.y_index_freq         = None,
                 !.last_window          = None,
                 !.included_exog        = FALSE,
                 !.exog_type            = None,
                 !.exog_col_names       = None,
                 !.in_sample_residuals  = None,
                 !.out_sample_residuals = None,
                 !.fitted               = FALSE,
                 !.training_range       = None]

\* env is what the call draws from outside the forecaster: the model the
\* regressor learns (coef), whether its fit or its predict raises, and the
\* seed of the residual subsample.
fit(self, y, exog, env) ==
    LET s0 == fit_reset(self)
        y1 == _preproces_y(y)
        s1 == [s0 EXCEPT !.y_index_type   = Some(y1.index.kind),
                         !.training_range = Some(<<y1.index.start, y1.index.stop - 1>>),
                         !.y_index_freq   = Some(y1.index.freq)]
        exog1 == IF exog = None THEN None ELSE Some(_preproces_exog(Get(exog)))
        s2 == IF exog = None THEN s1
              ELSE [s1 EXCEPT !.exog_type      = Some(Get(exog).type),
                              !.included_exog  = TRUE,
                              !.exog_col_names =
                                  IF Get(exog).type = "DataFrame"
                                  THEN Some(Get(exog).columns) ELSE None]
        XY == _create_train_X_y(s2, y1, exog1)
        s3 == [s2 EXCEPT !.regressor.coef =
                             Some([w |-> env.coef.w, b |-> env.coef.b,
                                   n_features |-> IF XY.X = <<>> THEN 0
                                                  ELSE Len(XY.X[1])])]
        s4 == [s3 EXCEPT !.fitted = TRUE]
        residuals == [i \in 1..Len(XY.y) |->
                        XY.y[i] - regressor_predict(Get(s3.regressor.coef), XY.X[i])]
        stored == IF Len(residuals) > MaxResiduals
                  THEN random_choice(residuals, MaxResiduals, env.seed)
                  ELSE residuals
        s5 == [s4 EXCEPT !.in_sample_residuals = Some(stored)]
        s6 == [s5 EXCEPT !.last_window =
                             Some(iloc_tail(XY.index, XY.y, self.max_lag))]
    IN  IF _check_y(y) # "none" THEN Raise(s0, _check_y(y))
        ELSE IF Len(y.values) = 0 THEN Raise(s0, "index_error")
        ELSE IF exog # None /\ Len(Get(exog).values) # Len(y.values)
             THEN Raise(s1, "exog_len")
        ELSE IF exog # None /\ _check_exog(Get(exog)) # "none"
             THEN Raise(s1, _check_exog(Get(exog)))
        ELSE IF _check_aligment_y_exog(y1, exog1) # "none"
             THEN Raise(s2, "not_aligned")
        ELSE IF XY.err # "none" THEN Raise(s2, XY.err)
        \* a regressor of the scikit-learn API rejects a table of no rows
        ELSE IF env.fit_raises \/ Len(XY.X) = 0 THEN Raise(s2, "regressor_fit")
        ELSE IF env.predict_raises THEN Raise(s4, "regressor_predict")
        ELSE Ok(s6, None)
----------------------------------------------------------------------------
(* predict                                                                 *)

\* last_window_values[-self.lags], were the lags counted from the start
lag_row_from_start(self, values) ==
    [c \in 1..Len(self.lags) |-> values[Min(self.lags[c], Len(values))]]

\* last_window_values[-self.lags]
lag_row(self, values) ==
    [c \in 1..Len(self.lags) |-> values[Len(values) - self.lags[c] + 1]]

\* the slide, were its result dropped
slide_dropped(values, prediction) == values

\* np.append(last_window_values[1:], prediction)
slide(values, prediction) == Append(Tail(values), prediction)

\* the loop over the steps: the predictions made so far, the error that
\* stopped it, the feature rows (X) it read, one per step
RECURSIVE predict_loop(_, _, _, _, _)
predict_loop(self, values, steps, predictions, X) ==
    IF steps = 0 THEN [err |-> "none", predictions |-> predictions, X |-> X]
    ELSE IF \E c \in DOMAIN self.lags : self.lags[c] > Len(values)
         THEN [err |-> "index_error", predictions |-> predictions, X |-> X]
    ELSE IF Len(self.lags) # Get(self.regressor.coef).n_features
         THEN [err |-> "feature_mismatch", predictions |-> predictions, X |-> X]
    ELSE LET row        == lag_row(self, values)
             prediction == regressor_predict(Get(self.regressor.coef), row)
         IN  predict_loop(self, slide(values, prediction), steps - 1,
                          Append(predictions, prediction), Append(X, row))

\* the window predict starts from: the one handed over, normalised, or the
\* stored one
predict_window(self, last_window) ==
    IF last_window # None THEN Some(_preproces_y(Get(last_window)))
    ELSE self.last_window

\* what predict raises before its loop
predict_checks(self, steps, last_window, exog) ==
    LET window == predict_window(self, last_window)
    IN  IF ~self.fitted THEN "not_fitted"
        ELSE IF steps < 1 THEN "steps"
        ELSE IF exog = None /\ self.included_exog THEN "exog_required"
        ELSE IF exog # None /\ ~self.included_exog THEN "exog_unexpected"
        ELSE IF exog # None /\ Len(Get(exog).values) < steps THEN "exog_len"
        \* _check_exog is called with ref_shape, a keyword it does not have
        ELSE IF exog # None THEN "type_error"
        ELSE IF last_window # None /\ Len(Get(last_window).values) < self.max_lag
             THEN "last_window_len"
        ELSE IF last_window # None /\ _check_last_window(Get(last_window)) # "none"
             THEN _check_last_window(Get(last_window))
        \* self.last_window is None: it has no index
        ELSE IF window = None THEN "attribute_error"
        \* index[-1] of an empty index
        ELSE IF Len(Get(window).values) = 0 THEN "index_error"
        ELSE "none"

\* predict, were its loop to slide the stored window itself and not a copy
predict_sliding_stored(self, steps, last_window, exog) ==
    LET window == Get(predict_window(self, last_window))
        run    == predict_loop(self, window.values, steps, <<>>, <<>>)
        slid   == Tail_k(window.values \o run.predictions, Len(window.values))
    IN  IF predict_checks(self, steps, last_window, exog) # "none"
        THEN Raise(self, predict_checks(self, steps, last_window, exog))
        ELSE IF run.err # "none" THEN Raise(self, run.err)
        ELSE Ok([self EXCEPT !.last_window = Some(Series(window.index, slid))],
                Some(Series(_expand_index(window.index, steps), run.predictions)))

predict(self, steps, last_window, exog) ==
    LET window == Get(predict_window(self, last_window))
        run    == predict_loop(self, window.values, steps, <<>>, <<>>)
    IN  IF predict_checks(self, steps, last_window, exog) # "none"
        THEN Raise(self, predict_checks(self, steps, last_window, exog))
        ELSE IF run.err # "none" THEN Raise(self, run.err)
        ELSE Ok(self, Some(Series(_expand_index(window.index, steps), run.predictions)))

----------------------------------------------------------------------------
(* Bootstrapped intervals                                                  *)

\* np.percentile, were the sample left in the order it was drawn
percentile_unsorted(a, q) ==
    LET n    == Len(a)
        lo   == (q * (n - 1)) \div Hundred
        frac == (q * (n - 1)) % Hundred
    IN  Hundred * a[lo + 1] + frac * (a[Min(lo + 2, n)] - a[lo + 1])

\* np.percentile(a, q) with linear interpolation, in hundredths
percentile(a, q) ==
    LET sorted == SortSeq(a, LAMBDA x, y : x < y)
        n      == Len(a)
        lo     == (q * (n - 1)) \div Hundred
        frac   == (q * (n - 1)) % Hundred
    IN  Hundred * sorted[lo + 1]
          + frac * (sorted[Min(lo + 2, n)] - sorted[lo + 1])

\* pd.concat([last_window_boot.iloc[1:], prediction_with_residual])
concat_boot(window, value) ==
    Series([window.index EXCEPT !.start = @ + 1, !.stop = @ + 1],
           Append(Tail(window.values), value))

\* one bootstrapping iteration, were the bare prediction slid into its
\* window and the residual added to the recorded value only
RECURSIVE boot_trial_sliding_prediction(_, _, _, _, _, _)
boot_trial_sliding_prediction(self, window, residuals, sample, step, acc) ==
    IF step > Len(sample) THEN [err |-> "none", values |-> acc]
    ELSE LET prediction == predict(self, 1, Some(window), None)
         IN  IF prediction.err # "none" THEN [err |-> prediction.err, values |-> acc]
             ELSE LET prediction_with_residual ==
                          Get(prediction.value).values[1] + residuals[sample[step]]
                  IN  boot_trial_sliding_prediction(
                          self, concat_boot(window, Get(prediction.value).values[1]),
                          residuals, sample, step + 1,
                          Append(acc, prediction_with_residual))

\* one bootstrapping iteration: the perturbed predictions of its steps
RECURSIVE boot_trial(_, _, _, _, _, _)
boot_trial(self, window, residuals, sample, step, acc) ==
    IF step > Len(sample) THEN [err |-> "none", values |-> acc]
    ELSE LET prediction == predict(self, 1, Some(window), None)
         IN  IF prediction.err # "none" THEN [err |-> prediction.err, values |-> acc]
             ELSE LET prediction_with_residual ==
                          Get(prediction.value).values[1] + residuals[sample[step]]
                  IN  boot_trial(self, concat_boot(window, prediction_with_residual),
                                 residuals, sample, step + 1,
                                 Append(acc, prediction_with_residual))

\* draws[i][step] is the position in the residuals that
\* np.random.choice(residuals, size=steps, replace=True) gives trial i
_estimate_boot_interval(self, steps, last_window, interval, n_boot, in_sample_residuals, draws) ==
    LET residuals == IF in_sample_residuals THEN self.in_sample_residuals
                     ELSE self.out_sample_residuals
        trial(i) == boot_trial(self, last_window, Get(residuals), draws[i], 1, <<>>)
        boot_predictions(step) == [i \in 1..n_boot |-> trial(i).values[step]]
        index == _expand_index(last_window.index, steps)
    IN  IF residuals = None \/ Get(residuals) = <<>>
        THEN [err |-> "value_error", index |-> index, rows |-> <<>>]
        ELSE IF \E i \in 1..n_boot : trial(i).err # "none"
             THEN [err |-> (CHOOSE e \in {trial(i).err : i \in 1..n_boot} : e # "none"),
                   index |-> index, rows |-> <<>>]
        ELSE [err  |-> "none",
              index |-> index,
              rows |-> [step \in 1..steps |->
                          [lower_bound |-> percentile(boot_predictions(step), interval[1]),
                           upper_bound |-> percentile(boot_predictions(step), interval[2])]]]

\* pd.concat((predictions, predictions_interval), axis=1): one row per
\* position of either index, in position order, NaN where a table has no
\* row at that position
concat_columns(predictions, predictions_interval) ==
    LET p == predictions.index
        q == predictions_interval.index
        positions == (p.start .. p.stop - 1) \cup (q.start .. q.stop - 1)
        sorted == [i \in 1..Cardinality(positions) |->
                     CHOOSE x \in positions :
                         Cardinality({z \in positions : z < x}) = i - 1]
    IN  [kind |-> p.kind,
         rows |-> [i \in 1..Len(sorted) |->
                     [position    |-> sorted[i],
                      pred        |-> IF sorted[i] \in p.start .. p.stop - 1
                                      THEN predictions.values[sorted[i] - p.start + 1]
                                      ELSE NaN,
                      lower_bound |-> IF sorted[i] \in q.start .. q.stop - 1
                                      THEN predictions_interval.rows[sorted[i] - q.start + 1].lower_bound
                                      ELSE NaN,
                      upper_bound |-> IF sorted[i] \in q.start .. q.stop - 1
                                      THEN predictions_interval.rows[sorted[i] - q.start + 1].upper_bound
                                      ELSE NaN]]]

predict_interval(self, steps, last_window, exog, interval, n_boot, in_sample_residuals, draws) ==
    LET window == IF last_window # None THEN Some(_preproces_y(Get(last_window)))
                  ELSE self.last_window
        predictions == predict(self, steps, window, exog)
        predictions_interval ==
            _estimate_boot_interval(self, steps, Get(window), interval, n_boot,
                                    in_sample_residuals, draws)
    IN  IF steps < 1 THEN Raise(self, "steps")
        ELSE IF ~in_sample_residuals /\ self.out_sample_residuals = None
             THEN Raise(self, "out_sample_empty")
        ELSE IF exog = None /\ self.included_exog THEN Raise(self, "exog_required")
        ELSE IF exog # None /\ ~self.included_exog THEN Raise(self, "exog_unexpected")
        \* self.exog_shape is no attribute of the forecaster
        ELSE IF exog # None THEN Raise(self, "attribute_error")
        ELSE IF last_window # None /\ Len(Get(last_window).values) < self.max_lag
             THEN Raise(self, "last_window_len")
        ELSE IF last_window # None /\ _check_last_window(Get(last_window)) # "none"
             THEN Raise(self, _check_last_window(Get(last_window)))
        \* self.last_window.copy() of None
        ELSE IF window = None THEN Raise(self, "attribute_error")
        ELSE IF predictions.err # "none" THEN Raise(self, predictions.err)
        ELSE IF predictions_interval.err # "none"
             THEN Raise(self, predictions_interval.err)
        ELSE Ok(self, Some(concat_columns(Get(predictions.value), predictions_interval)))

----------------------------------------------------------------------------
(* set_out_sample_residuals                                                *)

\* set_out_sample_residuals, were it to append whatever it is handed
set_out_sample_residuals_untruncated(self, residuals, append, seed) ==
    LET reduced == IF Len(residuals.values) > MaxResiduals
                   THEN random_choice(residuals.values, MaxResiduals, seed)
                   ELSE residuals.values
    IN  IF residuals.type # "ndarray" THEN Raise(self, "residuals_type")
        ELSE IF ~append \/ self.out_sample_residuals = None
             THEN Ok([self EXCEPT !.out_sample_residuals = Some(reduced)], None)
        ELSE Ok([self EXCEPT !.out_sample_residuals =
                                 Some(Get(self.out_sample_residuals) \o reduced)], None)

\* set_out_sample_residuals, were it to fill the room with the last of the
\* new values
set_out_sample_residuals_keeping_last(self, residuals, append, seed) ==
    LET reduced == IF Len(residuals.values) > MaxResiduals
                   THEN random_choice(residuals.values, MaxResiduals, seed)
                   ELSE residuals.values
        stored == Get(self.out_sample_residuals)
        free_space == Max(0, MaxResiduals - Len(stored))
    IN  IF residuals.type # "ndarray" THEN Raise(self, "residuals_type")
        ELSE IF ~append \/ self.out_sample_residuals = None
             THEN Ok([self EXCEPT !.out_sample_residuals = Some(reduced)], None)
        ELSE Ok([self EXCEPT !.out_sample_residuals =
                     Some(stored \o Tail_k(reduced, Min(free_space, Len(reduced))))], None)

set_out_sample_residuals(self, residuals, append, seed) ==
    LET reduced == IF Len(residuals.values) > MaxResiduals
                   THEN random_choice(residuals.values, MaxResiduals, seed)
                   ELSE residuals.values
        stored == Get(self.out_sample_residuals)
        free_space == Max(0, MaxResiduals - Len(stored))
    IN  IF residuals.type # "ndarray" THEN Raise(self, "residuals_type")
        ELSE IF ~append \/ self.out_sample_residuals = None
             THEN Ok([self EXCEPT !.out_sample_residuals = Some(reduced)], None)
        ELSE IF Len(reduced) < free_space
             THEN Ok([self EXCEPT !.out_sample_residuals = Some(stored \o reduced)], None)
        ELSE Ok([self EXCEPT !.out_sample_residuals =
                                 Some(stored \o SubSeq(reduced, 1, free_space))], None)
----------------------------------------------------------------------------
(* The arguments the calls are made with                                   *)

IntLags(n) == [type |-> "int", n |-> n, items |-> <<>>]
ListLags(items) == [type |-> "list", n |-> 0, items |-> items]

LagArgs ==
    {IntLags(n) : n \in 0..MaxLag}
      \cup {ListLags(<<1, 3>>), ListLags(<<0, 1>>), ListLags(<<>>)}

\* the observation at position i of the series
Obs(i) == (3 * i) % 7

Observed(n) == [i \in 1..n |-> Obs(i)]

DatetimeIndex(start, stop) ==
    [kind |-> "DatetimeIndex", start |-> start, stop |-> stop, freq |-> 1]

\* series of every length to MaxLen, one on a calendar index, one with a
\* missing value, and a list
SeriesArgs ==
    {Series(RangeIndex(0, n), Observed(n)) : n \in 1..MaxLen}
      \cup {Series(DatetimeIndex(10, 10 + MaxLen), Observed(MaxLen)),
            Series(RangeIndex(0, 3), <<Obs(1), NaN, Obs(3)>>),
            [type |-> "list", index |-> RangeIndex(0, 3), values |-> Observed(3)]}

\* exogenous data for a series: none and, for the longest series, aligned,
\* one row short, on another index
ExogArgs(y) ==
    LET n == Len(y.values)
        exog(index, k) ==
            [type |-> "Series", index |-> index, values |-> [i \in 1..k |-> i % 2],
             columns |-> <<>>]
    IN  IF y.type # "Series" \/ y.index.kind # "RangeIndex" \/ n < MaxLen THEN {None}
        ELSE {None,
              Some(exog(y.index, n)),
              Some(exog([y.index EXCEPT !.stop = @ - 1], n - 1)),
              Some(exog(DatetimeIndex(20, 20 + n), n))}

Coefs == {[w |-> "ones", b |-> 0], [w |-> "position", b |-> 1]}

\* what a fit meets: a regressor that learns, one whose fit raises, one whose
\* predict raises
FitEnv(coef, fit_raises, predict_raises) ==
    [coef |-> coef, fit_raises |-> fit_raises, predict_raises |-> predict_raises,
     seed |-> "head"]

FitEnvs ==
    LET coef == [w |-> "position", b |-> 1]
    IN  {FitEnv(coef, FALSE, FALSE), FitEnv(coef, TRUE, FALSE), FitEnv(coef, FALSE, TRUE)}

Window(n) == Series(RangeIndex(4, 4 + n), [i \in 1..n |-> Obs(i + 1)])

PredictExog ==
    Some([type |-> "Series", index |-> RangeIndex(0, 2), values |-> <<1, 0>>,
          columns |-> <<>>])

\* (steps, last_window, exog) of the calls of predict and predict_interval
PredictArgs ==
    {<<0, None, None>>, <<1, None, None>>, <<2, None, None>>,
     <<1, Some(Window(MaxLag)), None>>, <<2, Some(Window(1)), None>>,
     <<1, None, PredictExog>>}

ResidualArgs ==
    {[type |-> "ndarray", values |-> <<>>], [type |-> "ndarray", values |-> <<-1, 2>>],
     [type |-> "list", values |-> <<1>>]}

\* draws of np.random.choice(residuals, size=steps, replace=True) for n_boot
\* trials: trial i draws the residuals from the i-th on
Draws(n_boot, steps, n_residuals) ==
    {[i \in 1..n_boot |-> [step \in 1..steps |->
                             ((i + step - 2) % Max(1, n_residuals)) + 1]]}

----------------------------------------------------------------------------
(* The forecaster's life                                                   *)

Init ==
    /\ \E lags \in LagArgs :
          /\ lags_error(lags) = "none"
          /\ forecaster = __init__(Regressor, lags)
    /\ ret = [op |-> "__init__", args |-> <<>>, err |-> "none", value |-> None]
    /\ recorded = 0
    /\ latest_fit = "never"

Call(op, args, result) ==
    /\ forecaster' = result.self
    /\ ret' = [op |-> op, args |-> args, err |-> result.err, value |-> result.value]

SetLags ==
    \E lags \in LagArgs :
        /\ Call("set_lags", [lags |-> lags], set_lags(forecaster, lags))
        /\ UNCHANGED <<recorded, latest_fit>>

Fit ==
    \E y \in SeriesArgs : \E exog \in ExogArgs(y) : \E env \in FitEnvs :
        /\ Call("fit", [y |-> y, exog |-> exog, env |-> env],
                fit(forecaster, y, exog, env))
        /\ recorded' = 0
        /\ latest_fit' = IF fit(forecaster, y, exog, env).err = "none"
                         THEN "returned" ELSE "raised"

Predict ==
    \E a \in PredictArgs :
        /\ Call("predict", [steps |-> a[1], last_window |-> a[2], exog |-> a[3]],
                predict(forecaster, a[1], a[2], a[3]))
        /\ UNCHANGED <<recorded, latest_fit>>

Residuals(self, in_sample_residuals) ==
    IF in_sample_residuals THEN self.in_sample_residuals ELSE self.out_sample_residuals

PredictInterval ==
    \E a \in PredictArgs : \E in_sample_residuals \in BOOLEAN :
    \E draws \in Draws(2, a[1],
                       IF Residuals(forecaster, in_sample_residuals) = None THEN 0
                       ELSE Len(Get(Residuals(forecaster, in_sample_residuals)))) :
        /\ Call("predict_interval",
                [steps |-> a[1], last_window |-> a[2], exog |-> a[3],
                 in_sample_residuals |-> in_sample_residuals, draws |-> draws],
                predict_interval(forecaster, a[1], a[2], a[3], <<5, 95>>, 2,
                                 in_sample_residuals, draws))
        /\ UNCHANGED <<recorded, latest_fit>>

SetOutSampleResiduals ==
    \E residuals \in ResidualArgs : \E append \in BOOLEAN :
        /\ recorded < MaxOut
        /\ LET result == set_out_sample_residuals(forecaster, residuals, append, "head")
           IN  /\ Call("set_out_sample_residuals",
                       [residuals |-> residuals, append |-> append], result)
               /\ recorded' = IF result.err = "none" THEN recorded + 1 ELSE recorded
               /\ UNCHANGED latest_fit

Next ==
    \/ SetLags
    \/ Fit
    \/ Predict
    \/ PredictInterval
    \/ SetOutSampleResiduals

Spec == Init /\ [][Next]_vars
----------------------------------------------------------------------------
(* Properties of the forecaster's life                                     *)

PredictOps == {"predict", "predict_interval"}

\* C3: predict and predict_interval never change the forecaster's stored
\* state: after any such call, successful or failing, last_window, both
\* residual collections, lags and the fitted flag are what they were before.
C3_PredictLeavesStateUnchanged ==
    [][ret'.op \in PredictOps =>
          /\ forecaster'.last_window = forecaster.last_window
          /\ forecaster'.in_sample_residuals = forecaster.in_sample_residuals
          /\ forecaster'.out_sample_residuals = forecaster.out_sample_residuals
          /\ forecaster'.lags = forecaster.lags
          /\ forecaster'.fitted = forecaster.fitted
          /\ forecaster' = forecaster]_vars

\* a predict of two steps from the stored window has returned
C3_Witness ==
    /\ ret.op = "predict"
    /\ ret.err = "none"
    /\ ret.args.steps = 2
    /\ ret.args.last_window = None

IsSeries(y) == y.type = "Series" /\ ~HasNaN(y.values)

\* C5: for every lag set of maximum lag m and every series of length n > m
\* the lag matrix has n - m rows, one column per lag, and n - m targets.
C5_LagMatrixShape ==
    (ret.op = "fit" /\ IsSeries(ret.args.y)
        /\ Len(ret.args.y.values) > forecaster.max_lag) =>
      LET XY == _create_lags(forecaster, _preproces_y(ret.args.y))
          rows == Len(ret.args.y.values) - forecaster.max_lag
      IN  /\ XY.err = "none"
          /\ Len(XY.X) = rows
          /\ \A i \in 1..Len(XY.X) : Len(XY.X[i]) = Len(forecaster.lags)
          /\ Len(XY.y) = rows

\* C6: after every successful fit(y) the stored last_window holds exactly
\* max_lag observations, the last max_lag values of y in order.
C6_LastWindowIsTail ==
    (ret.op = "fit" /\ ret.err = "none") =>
      LET m == forecaster.max_lag
          y == ret.args.y.values
          w == Get(forecaster.last_window).values
      IN  /\ forecaster.last_window # None
          /\ Len(w) = m
          /\ \A i \in 1..Len(w) : w[i] = y[Len(y) - m + i]

ValidationErrors == {"y_not_series", "y_missing", "exog_len", "not_aligned"}

\* C7: a fit that fails validation raises before any mutation: a forecaster
\* fitted before the call is fitted after it, with the same state.
C7_FailedFitLeavesState ==
    [][(ret'.op = "fit" /\ ret'.err \in ValidationErrors /\ forecaster.fitted) =>
          /\ forecaster'.fitted
          /\ forecaster' = forecaster]_vars

\* C8: while no fit has succeeded, or the latest fit raised, every predict and
\* predict_interval fails with the not-fitted error and returns nothing; the
\* forecaster is fitted only through a fit that returned.
C8_FittedGate ==
    /\ (ret.op \in PredictOps /\ latest_fit # "returned") =>
          (ret.err = "not_fitted" /\ ret.value = None)
    /\ forecaster.fitted => latest_fit = "returned"

\* C9: predict_interval with in_sample_residuals=False fails in every state
\* in which no out-of-sample residuals were recorded since the latest fit
\* (fit clears them), and does not fail for lack of them once
\* set_out_sample_residuals has returned after that fit.
C9_OutSampleGate ==
    /\ (forecaster.out_sample_residuals = None) <=> (recorded = 0)
    /\ (ret.op = "predict_interval" /\ ~ret.args.in_sample_residuals) =>
          /\ recorded = 0 => ret.err # "none"
          /\ (recorded = 0 /\ ret.args.steps >= 1) => ret.err = "out_sample_empty"
          /\ recorded > 0 => ret.err # "out_sample_empty"

\* predict_interval has drawn from recorded out-of-sample residuals
C9_Witness ==
    /\ ret.op = "predict_interval"
    /\ ~ret.args.in_sample_residuals
    /\ recorded > 0
    /\ ret.err = "none"

\* C10: predict_interval(steps) returns exactly `steps` rows, each with the
\* point prediction and its bounds, and the point predictions, values and
\* positions, are those of predict(steps) for the same inputs.
C10_IntervalRowsArePredictions ==
    (ret.op = "predict_interval" /\ ret.err = "none") =>
      LET rows == Get(ret.value).rows
          p    == predict(forecaster, ret.args.steps, ret.args.last_window,
                          ret.args.exog)
      IN  /\ Len(rows) = ret.args.steps
          /\ p.err = "none"
          /\ \A i \in 1..Len(rows) :
                /\ i <= Len(Get(p.value).values)
                /\ rows[i].pred = Get(p.value).values[i]
                /\ rows[i].position = Get(p.value).index.start + i - 1
                /\ rows[i].lower_bound # NaN
                /\ rows[i].upper_bound # NaN
----------------------------------------------------------------------------
(* Recursive prediction: fits of series without exogenous data, changes of *)
(* the lags, and predictions of one to MaxSteps steps from the stored      *)
(* window and from windows of one to MaxWindow observations                *)

FitObserved ==
    \E y \in {z \in SeriesArgs : IsSeries(z)} : \E coef \in Coefs :
        LET env == FitEnv(coef, FALSE, FALSE)
        IN  /\ Call("fit", [y |-> y, exog |-> None, env |-> env],
                    fit(forecaster, y, None, env))
            /\ recorded' = 0
            /\ latest_fit' = IF fit(forecaster, y, None, env).err = "none"
                             THEN "returned" ELSE "raised"

PredictSteps ==
    \E steps \in 1..MaxSteps :
    \E last_window \in {None} \cup {Some(Window(n)) : n \in 1..MaxWindow} :
        /\ Call("predict", [steps |-> steps, last_window |-> last_window, exog |-> None],
                predict(forecaster, steps, last_window, None))
        /\ UNCHANGED <<recorded, latest_fit>>

NextPredict ==
    \/ FitObserved
    \/ SetLags
    \/ PredictSteps

SpecPredict == Init /\ [][NextPredict]_vars

\* the window for the next one-step call: the window of this call with its
\* oldest value dropped and the call's output appended
Reseed(window, output) ==
    Series([window.index EXCEPT !.start = @ + 1, !.stop = @ + 1],
           Tail(window.values) \o output.values)

\* k calls of predict(steps=1), each but the first on the reseeded window
RECURSIVE Sequential(_, _, _, _)
Sequential(self, last_window, k, outputs) ==
    IF k = 0 THEN [err |-> "none", values |-> outputs]
    ELSE LET call   == predict(self, 1, last_window, None)
             window == IF last_window = None THEN Get(self.last_window)
                       ELSE Get(last_window)
         IN  IF call.err # "none" THEN [err |-> call.err, values |-> outputs]
             ELSE Sequential(self, Some(Reseed(window, Get(call.value))), k - 1,
                             outputs \o Get(call.value).values)

\* C1: without exogenous data, k calls of predict(steps=1), each on the
\* window of the call before with its oldest value dropped and that call's
\* output appended, give the k values of one predict(steps=k) from the first
\* window, in the same order (and fail when it fails).
C1_SequentialEquivalence ==
    (ret.op = "predict" /\ ret.args.exog = None /\ ret.args.steps >= 1) =>
      LET seq == Sequential(forecaster, ret.args.last_window, ret.args.steps, <<>>)
      IN  IF ret.err = "none"
          THEN seq.err = "none" /\ seq.values = Get(ret.value).values
          ELSE seq.err = ret.err

\* three steps were predicted from a window longer than the largest lag
C1_Witness ==
    /\ ret.op = "predict"
    /\ ret.err = "none"
    /\ ret.args.steps >= 3
    /\ ret.args.last_window # None
    /\ Len(Get(ret.args.last_window).values) > forecaster.max_lag
    /\ Len(forecaster.lags) >= 2

\* C2: every step's feature row is read at the lag offsets counted from the
\* end of the working buffer, which after each step drops its oldest value
\* and takes the prediction: at step i (from 0) the input of a lag k <= i is
\* the output of step i - k of the same call, and that of a lag k > i is
\* the observation k - i places from the end of the window.
C2_RowsFeedOnPredictions ==
    (ret.op = "predict" /\ ret.err = "none") =>
      LET W   == Get(predict_window(forecaster, ret.args.last_window)).values
          run == predict_loop(forecaster, W, ret.args.steps, <<>>, <<>>)
          out == Get(ret.value).values
      IN  /\ Len(run.X) = ret.args.steps
          /\ Len(out) = ret.args.steps
          /\ \A i \in 1..Len(run.X) : \A c \in DOMAIN forecaster.lags :
                LET k == forecaster.lags[c]
                IN  run.X[i][c] = IF k <= i - 1 THEN out[i - k]
                                  ELSE W[Len(W) - k + i]

\* a third step has read its lag-1 and lag-2 inputs from the two outputs
\* before it
C2_Witness ==
    /\ ret.op = "predict"
    /\ ret.err = "none"
    /\ ret.args.steps >= 3
    /\ \E c \in DOMAIN forecaster.lags : forecaster.lags[c] = 2

----------------------------------------------------------------------------
(* The residual cap: fits of series about MaxResiduals long, and residuals *)
(* handed over in arrays up to MaxResiduals + 1 long                       *)

Seeds == {"head", "tail"}

LongSeries(n) == Series(RangeIndex(0, n), [i \in 1..n |-> Obs(i)])

FitLong ==
    \E n \in {3, MaxResiduals + 1, MaxResiduals + 3} : \E seed \in Seeds :
        LET env == [FitEnv([w |-> "ones", b |-> 0], FALSE, FALSE) EXCEPT !.seed = seed]
            result == fit(forecaster, LongSeries(n), None, env)
        IN  /\ Call("fit", [y |-> LongSeries(n), exog |-> None, env |-> env], result)
            /\ recorded' = 0
            /\ latest_fit' = IF result.err = "none" THEN "returned" ELSE "raised"

SetOutLong ==
    \E n \in {1, MaxResiduals - 1, MaxResiduals + 1} : \E append \in BOOLEAN :
    \E seed \in Seeds :
        /\ recorded <= MaxOut
        /\ LET residuals == [type |-> "ndarray", values |-> [i \in 1..n |-> (i % 3) - 1]]
               result == set_out_sample_residuals(forecaster, residuals, append, seed)
           IN  /\ Call("set_out_sample_residuals",
                       [residuals |-> residuals, append |-> append], result)
               /\ recorded' = IF result.err = "none" THEN recorded + 1 ELSE recorded
               /\ UNCHANGED latest_fit

NextCap ==
    \/ FitLong
    \/ SetOutLong

SpecCap == Init /\ [][NextCap]_vars

Stored(residuals) == IF residuals = None THEN 0 ELSE Len(Get(residuals))

\* C4: in every state reached by fit and set_out_sample_residuals calls
\* (append True or False, inputs of any length) the in-sample and the
\* out-of-sample residual collections each hold at most 1000 values.
C4_ResidualCap ==
    /\ Stored(forecaster.in_sample_residuals) <= MaxResiduals
    /\ Stored(forecaster.out_sample_residuals) <= MaxResiduals

\* both collections are full, the out-of-sample one by an append that was
\* cut short
C4_Witness ==
    /\ ret.op = "set_out_sample_residuals"
    /\ ret.args.append
    /\ Stored(forecaster.out_sample_residuals) = MaxResiduals
    /\ Stored(forecaster.in_sample_residuals) = MaxResiduals
    /\ Len(ret.args.residuals.values) < MaxResiduals
----------------------------------------------------------------------------
(* Bootstrapped bands: fits without exogenous data, out-of-sample          *)
(* residuals of one sign, of both signs and all alike, and intervals of    *)
(* one to MaxBootSteps steps over a family of draws                        *)

BootResiduals == {<<0>>, <<2, 2>>, <<-1, 2>>, <<-3, -1, 1>>}

\* draws of np.random.choice(residuals, size=steps, replace=True): trial i
\* draws at step s the residual at position a*i + b*s, counted round
BootDraws(n_boot, steps, n_residuals) ==
    LET n == Max(1, n_residuals)
    IN  {[i \in 1..n_boot |-> [step \in 1..steps |-> ((a * i + b * step) % n) + 1]] :
            a \in 0..(n - 1), b \in 0..1}

FitBoot ==
    \E n \in {MaxLen - 1, MaxLen} :
        LET y   == Series(RangeIndex(0, n), Observed(n))
            env == FitEnv([w |-> "position", b |-> 1], FALSE, FALSE)
        IN  /\ Call("fit", [y |-> y, exog |-> None, env |-> env],
                    fit(forecaster, y, None, env))
            /\ recorded' = 0
            /\ latest_fit' = IF fit(forecaster, y, None, env).err = "none"
                             THEN "returned" ELSE "raised"

SetOutBoot ==
    \E values \in BootResiduals : \E append \in BOOLEAN :
        /\ forecaster.out_sample_residuals = None
        /\ LET residuals == [type |-> "ndarray", values |-> values]
               result == set_out_sample_residuals(forecaster, residuals, append, "head")
           IN  /\ Call("set_out_sample_residuals",
                       [residuals |-> residuals, append |-> append], result)
               /\ recorded' = IF result.err = "none" THEN recorded + 1 ELSE recorded
               /\ UNCHANGED latest_fit

IntervalBoot ==
    \E steps \in 1..MaxBootSteps : \E last_window \in {None, Some(Window(MaxLag))} :
    \E in_sample_residuals \in BOOLEAN :
    \E draws \in BootDraws(2, steps,
                           IF Residuals(forecaster, in_sample_residuals) = None THEN 0
                           ELSE Len(Get(Residuals(forecaster, in_sample_residuals)))) :
        /\ Call("predict_interval",
                [steps |-> steps, last_window |-> last_window, exog |-> None,
                 in_sample_residuals |-> in_sample_residuals, draws |-> draws],
                predict_interval(forecaster, steps, last_window, None, <<5, 95>>, 2,
                                 in_sample_residuals, draws))
        /\ UNCHANGED <<recorded, latest_fit>>

NextBoot ==
    \/ FitBoot
    \/ SetOutBoot
    \/ IntervalBoot

SpecBoot == Init /\ [][NextBoot]_vars

\* the point predictions and the bands of a returned table, each in the
\* order of the forecast steps
Preds(rows) == SelectSeq(rows, LAMBDA r : r.pred # NaN)
Bands(rows) == SelectSeq(rows, LAMBDA r : r.lower_bound # NaN)

AllAlike(residuals) == \A i, j \in DOMAIN residuals : residuals[i] = residuals[j]

\* C11 as stated: at every forecast step the band of interval [5,95] holds
\* the point prediction, lower_bound <= prediction <= upper_bound, for every
\* residual collection and draw; with residuals all alike both bounds equal
\* the prediction.
C11_BandsHoldPrediction ==
    (ret.op = "predict_interval" /\ ret.err = "none") =>
      LET rows == Get(ret.value).rows
          residuals == Get(Residuals(forecaster, ret.args.in_sample_residuals))
      IN  \A i \in 1..ret.args.steps :
            /\ Bands(rows)[i].lower_bound <= Hundred * Preds(rows)[i].pred
            /\ Hundred * Preds(rows)[i].pred <= Bands(rows)[i].upper_bound
            /\ AllAlike(residuals) =>
                  /\ Bands(rows)[i].lower_bound = Hundred * Preds(rows)[i].pred
                  /\ Bands(rows)[i].upper_bound = Hundred * Preds(rows)[i].pred

\* C11, amended: at every forecast step lower_bound <= upper_bound; at the
\* first step both bounds lie between the prediction plus the least and the
\* prediction plus the greatest stored residual; with residuals all alike,
\* of value c, the bounds are equal at every step and equal the prediction
\* plus c at the first.
C11_BandsOrdered ==
    (ret.op = "predict_interval" /\ ret.err = "none") =>
      LET rows == Get(ret.value).rows
          residuals == Get(Residuals(forecaster, ret.args.in_sample_residuals))
          first == Preds(rows)[1].pred
      IN  /\ Len(Preds(rows)) = ret.args.steps
          /\ Len(Bands(rows)) = ret.args.steps
          /\ \A i \in 1..ret.args.steps :
                /\ Bands(rows)[i].lower_bound <= Bands(rows)[i].upper_bound
                /\ AllAlike(residuals) =>
                      Bands(rows)[i].lower_bound = Bands(rows)[i].upper_bound
          /\ Hundred * (first + SeqMin(residuals)) <= Bands(rows)[1].lower_bound
          /\ Bands(rows)[1].upper_bound <= Hundred * (first + SeqMax(residuals))
          /\ AllAlike(residuals) =>
                Bands(rows)[1].lower_bound = Hundred * (first + residuals[1])

\* a band of two steps drawn from residuals of both signs lies wholly above
\* the prediction at the first step
C11_Witness ==
    /\ ret.op = "predict_interval"
    /\ ret.err = "none"
    /\ ret.args.steps = 2
    /\ ~ret.args.in_sample_residuals
    /\ ~AllAlike(Get(forecaster.out_sample_residuals))
    /\ Bands(Get(ret.value).rows)[1].lower_bound
          > Hundred * Preds(Get(ret.value).rows)[1].pred
----------------------------------------------------------------------------
(* The index of the predictions                                            *)

\* C12: the index of predict's output is the index of the window it started
\* from extended forward by `steps` positions with the same step: after the
\* stored window of a series of length n the outputs are at n .. n+steps-1,
\* and after a supplied window whose index ends at p they are at
\* p+1 .. p+steps.
C12_OutputIndexExtendsWindow ==
    (ret.op = "predict" /\ ret.err = "none") =>
      LET window == IF ret.args.last_window = None THEN Get(forecaster.last_window)
                    ELSE Get(ret.args.last_window)
          p   == window.index.stop - 1
          out == Get(ret.value).index
      IN  /\ out.kind = window.index.kind
          /\ out.freq = window.index.freq
          /\ out.start = p + 1
          /\ out.stop - 1 = p + ret.args.steps
          /\ Len(Get(ret.value).values) = ret.args.steps
          /\ ret.args.last_window = None =>
                out.start = Get(forecaster.training_range)[2] + 1
----------------------------------------------------------------------------
(* The lag configuration: constructions and set_lags calls with ints,      *)
(* lists, ranges and arrays, valid and not, between fits                   *)

SeqLags(type, items) == [type |-> type, n |-> 0, items |-> items]

LagArgsAny ==
    {IntLags(n) : n \in 0..MaxLag}
      \cup {ListLags(<<1, 3>>), ListLags(<<0, 1>>), ListLags(<<>>),
            SeqLags("range", <<1, 2>>), SeqLags("range", <<0, 1, 2>>),
            SeqLags("ndarray", <<2>>), SeqLags("ndarray", <<>>),
            SeqLags("str", <<>>)}

\* forecaster = ForecasterAutoreg(regressor, lags): a construction that
\* raises leaves the program with the forecaster it had
Construct ==
    \E lags \in LagArgsAny :
        /\ forecaster' = IF lags_error(lags) = "none"
                         THEN __init__(Regressor, lags) ELSE forecaster
        /\ ret' = [op |-> "__init__", args |-> [lags |-> lags],
                   err |-> lags_error(lags), value |-> None]
        /\ recorded' = IF lags_error(lags) = "none" THEN 0 ELSE recorded
        /\ latest_fit' = IF lags_error(lags) = "none" THEN "never" ELSE latest_fit

SetLagsAny ==
    \E lags \in LagArgsAny :
        /\ Call("set_lags", [lags |-> lags], set_lags(forecaster, lags))
        /\ UNCHANGED <<recorded, latest_fit>>

NextLags ==
    \/ Construct
    \/ SetLagsAny
    \/ FitObserved

SpecLags == Init /\ [][NextLags]_vars

LagOps == {"__init__", "set_lags"}

\* the lags an argument configures: 1..n for an int n, its elements otherwise
Configures(lags, array) ==
    IF lags.type = "int"
    THEN Len(array) = lags.n /\ \A i \in 1..Len(array) : array[i] = i
    ELSE array = lags.items

\* C13: after every successful construction or set_lags call, lags is the
\* configured set (an int n gives 1..n; a list, range or array its elements),
\* and in every reachable state max_lag = window_size = max(lags).
C13_LagsConfigured ==
    /\ forecaster.max_lag = forecaster.window_size
    /\ \A i \in DOMAIN forecaster.lags : forecaster.lags[i] <= forecaster.max_lag
    /\ \E i \in DOMAIN forecaster.lags : forecaster.lags[i] = forecaster.max_lag
    /\ (ret.op \in LagOps /\ ret.err = "none" /\ ret.args # <<>>) =>
          Configures(ret.args.lags, forecaster.lags)

\* set_lags has configured a range on a fitted forecaster
C13_Witness ==
    /\ ret.op = "set_lags"
    /\ ret.err = "none"
    /\ ret.args.lags.type = "range"
    /\ forecaster.max_lag >= 2
    /\ forecaster.fitted

\* an int below 1, or a list, range or array that is empty or holds a value
\* below 1
Invalid(lags) ==
    \/ lags.type = "int" /\ lags.n < 1
    \/ /\ lags.type \in {"list", "range", "ndarray"}
       /\ \/ lags.items = <<>>
          \/ \E i \in DOMAIN lags.items : lags.items[i] < 1

\* C14: an invalid lag configuration is rejected with an error at
\* construction and by set_lags, and a set_lags that rejects leaves lags,
\* max_lag and window_size as they were.
C14_InvalidLagsRejected ==
    [][(ret'.op \in LagOps /\ ret'.args # <<>> /\ Invalid(ret'.args.lags)) =>
          /\ ret'.err # "none"
          /\ forecaster'.lags = forecaster.lags
          /\ forecaster'.max_lag = forecaster.max_lag
          /\ forecaster'.window_size = forecaster.window_size]_vars

\* set_lags has rejected a list on a fitted forecaster
C14_Witness ==
    /\ ret.op = "set_lags"
    /\ ret.err # "none"
    /\ ret.args.lags.type = "list"
    /\ forecaster.fitted

\* C15: set_lags changes only lags, max_lag and window_size: the fitted
\* flag, the stored last_window, both residual collections and the
\* exogenous and training metadata are as before, so a fitted forecaster
\* stays fitted.
C15_SetLagsFrame ==
    [][ret'.op = "set_lags" =>
          forecaster' = [forecaster EXCEPT !.lags = forecaster'.lags,
                                           !.max_lag = forecaster'.max_lag,
                                           !.window_size = forecaster'.window_size]]_vars

\* set_lags has given a fitted forecaster lags other than those it was
\* fitted with
C15_Witness ==
    /\ ret.op = "set_lags"
    /\ ret.err = "none"
    /\ forecaster.fitted
    /\ forecaster.last_window # None
    /\ Len(forecaster.lags) # Get(forecaster.regressor.coef).n_features
----------------------------------------------------------------------------
(* What set_out_sample_residuals stores                                    *)

\* r reduced to at most MaxResiduals values: r itself, or one of the samples
\* np.random.choice can give
Reductions(r) ==
    IF Len(r) <= MaxResiduals THEN {r}
    ELSE {random_choice(r, MaxResiduals, seed) : seed \in Seeds}

\* C16: set_out_sample_residuals(r, append=True) on a store of k residuals
\* never raises for lack of room and leaves the old k residuals, unchanged
\* and in order, followed by the first min(len(r), 1000 - k) values of r
\* (r first reduced to at most 1000 values); with append=False, or with
\* nothing stored yet, the store becomes r (so reduced).
C16_AppendFillsRoom ==
    [][(ret'.op = "set_out_sample_residuals"
          /\ ret'.args.residuals.type = "ndarray") =>
          /\ ret'.err = "none"
          /\ forecaster'.out_sample_residuals # None
          /\ \E reduced \in Reductions(ret'.args.residuals.values) :
                IF ret'.args.append /\ forecaster.out_sample_residuals # None
                THEN LET old  == Get(forecaster.out_sample_residuals)
                         k    == Len(old)
                         take == Min(Len(reduced), MaxResiduals - k)
                     IN  Get(forecaster'.out_sample_residuals)
                            = old \o SubSeq(reduced, 1, take)
                ELSE Get(forecaster'.out_sample_residuals) = reduced]_vars

\* an append of more values than there was room for has filled the store
C16_Witness ==
    /\ ret.op = "set_out_sample_residuals"
    /\ ret.err = "none"
    /\ ret.args.append
    /\ recorded >= 2
    /\ Len(ret.args.residuals.values) > MaxResiduals
    /\ Stored(forecaster.out_sample_residuals) = MaxResiduals
----------------------------------------------------------------------------
(* model_selection.time_series_spliter                                     *)

\* Python's range(start, stop)
Range(start, stop) == [start |-> start, stop |-> stop]

RangeLen(r) == Max(0, r.stop - r.start)

\* the loop over range(folds), were the last fold given its whole steps
RECURSIVE spliter_loop_full_last(_, _, _, _, _, _, _)
spliter_loop_full_last(n, initial_train_size, steps, allow_incomplete_fold, folds, i, yielded) ==
    LET remainder == (n - initial_train_size) % steps
        train_end == initial_train_size + i * steps
    IN  IF i >= folds THEN yielded
        ELSE IF i < folds - 1 \/ (remainder # 0 /\ allow_incomplete_fold)
             THEN spliter_loop_full_last(n, initial_train_size, steps,
                                         allow_incomplete_fold, folds, i + 1,
                                         Append(yielded,
                                                [train |-> Range(0, train_end),
                                                 test  |-> Range(train_end, train_end + steps)]))
        ELSE yielded

\* the loop over range(folds): the folds yielded from fold i on
RECURSIVE spliter_loop(_, _, _, _, _, _, _)
spliter_loop(n, initial_train_size, steps, allow_incomplete_fold, folds, i, yielded) ==
    LET remainder == (n - initial_train_size) % steps
        train_end == initial_train_size + i * steps
    IN  IF i >= folds THEN yielded
        ELSE IF i < folds - 1
             THEN spliter_loop(n, initial_train_size, steps, allow_incomplete_fold,
                               folds, i + 1,
                               Append(yielded,
                                      [train |-> Range(0, train_end),
                                       test  |-> Range(train_end, train_end + steps)]))
        ELSE IF remainder # 0 /\ allow_incomplete_fold
             THEN spliter_loop(n, initial_train_size, steps, allow_incomplete_fold,
                               folds, i + 1,
                               Append(yielded,
                                      [train |-> Range(0, train_end),
                                       test  |-> Range(train_end, n)]))
        ELSE yielded

\* the folds the generator yields, or the error it raises (verbose only
\* prints)
time_series_spliter(y, initial_train_size, steps, allow_incomplete_fold) ==
    LET n     == Len(y.values)
        folds == (n - initial_train_size) \div steps + 1
    IN  IF y.type \notin {"ndarray", "Series"}
        THEN [err |-> "y_type", folds |-> <<>>]
        ELSE IF initial_train_size > n
             THEN [err |-> "initial_train_size", folds |-> <<>>]
        ELSE IF folds = 1 THEN [err |-> "none", folds |-> <<>>]
        ELSE [err |-> "none",
              folds |-> spliter_loop(n, initial_train_size, steps,
                                     allow_incomplete_fold, folds, 0, <<>>)]

SplitSeries == {Series(RangeIndex(0, n), Observed(n)) : n \in 0..MaxSplitLen}

Split ==
    \E y \in SplitSeries : \E initial_train_size \in 0..(Len(y.values) + 1) :
    \E steps \in 1..MaxFoldSteps : \E allow_incomplete_fold \in BOOLEAN :
        LET result == time_series_spliter(y, initial_train_size, steps,
                                          allow_incomplete_fold)
        IN  /\ ret' = [op |-> "time_series_spliter",
                       args |-> [y |-> y, initial_train_size |-> initial_train_size,
                                 steps |-> steps,
                                 allow_incomplete_fold |-> allow_incomplete_fold],
                       err |-> result.err, value |-> Some(result.folds)]
            /\ UNCHANGED <<forecaster, recorded, latest_fit>>

NextSplit == Split

SpecSplit == Init /\ [][NextSplit]_vars

\* C17: every fold has a train range from 0 and a test range starting where
\* the train range ends; from fold to fold the train end grows by `steps`
\* (so the test ranges are disjoint and in time order); every test range is
\* non-empty and within [initial_train_size, N), and only the last may be
\* shorter than `steps`.
C17_FoldsAreConsecutive ==
    (ret.op = "time_series_spliter" /\ ret.err = "none") =>
      LET folds == Get(ret.value)
          a     == ret.args
          N     == Len(a.y.values)
      IN  /\ \A i \in DOMAIN folds :
                /\ folds[i].train.start = 0
                /\ folds[i].test.start = folds[i].train.stop
                /\ folds[i].test.start < folds[i].test.stop
                /\ a.initial_train_size <= folds[i].test.start
                /\ folds[i].test.stop <= N
                /\ RangeLen(folds[i].test) <= a.steps
                /\ i < Len(folds) => RangeLen(folds[i].test) = a.steps
                /\ i > 1 => /\ folds[i].train.stop = folds[i - 1].train.stop + a.steps
                            /\ folds[i - 1].test.stop <= folds[i].test.start
          /\ folds # <<>> => folds[1].train.stop = a.initial_train_size

\* three folds, the last of them short: N=10, initial_train_size=5, steps=2
\* is out of the bounds, N=7, initial_train_size=2, steps=2 is its like
C17_Witness ==
    /\ ret.op = "time_series_spliter"
    /\ ret.err = "none"
    /\ Len(Get(ret.value)) = 3
    /\ RangeLen(Get(ret.value)[3].test) < ret.args.steps
    /\ RangeLen(Get(ret.value)[3].test) > 0

Ceil(a, b) == (a + b - 1) \div b

\* C18: for initial_train_size <= N and steps >= 1 the number of folds is
\* ceil((N - initial_train_size) / steps) when incomplete folds are allowed,
\* and one less when they are not and steps does not divide
\* N - initial_train_size; with incomplete folds allowed the test ranges
\* cover [initial_train_size, N), also when N - initial_train_size < steps.
C18_NumberOfFolds ==
    (ret.op = "time_series_spliter" /\ ret.args.initial_train_size <= Len(ret.args.y.values)) =>
      LET folds == Get(ret.value)
          a     == ret.args
          rest  == Len(a.y.values) - a.initial_train_size
      IN  /\ ret.err = "none"
          /\ Len(folds) = IF a.allow_incomplete_fold \/ rest % a.steps = 0
                          THEN Ceil(rest, a.steps) ELSE Ceil(rest, a.steps) - 1
          /\ a.allow_incomplete_fold =>
                \A position \in a.initial_train_size .. (Len(a.y.values) - 1) :
                    \E i \in DOMAIN folds :
                        /\ folds[i].test.start <= position
                        /\ position < folds[i].test.stop
----------------------------------------------------------------------------
(* model_selection.cv_forecaster                                           *)

Metrics == {"mean_squared_error", "mean_absolute_error", "mean_absolute_percentage_error"}

get_metric(metric) == IF metric \notin Metrics THEN "metric" ELSE "none"

Abs(x) == IF x < 0 THEN -x ELSE x

RECURSIVE Sum(_)
Sum(s) == IF s = <<>> THEN 0 ELSE Head(s) + Sum(Tail(s))

\* metric(y_true, y_pred) as the fraction <<numerator, denominator>>; the
\* percentage error is kept as its terms
metric_value(metric, y_true, y_pred) ==
    LET d == [i \in 1..Len(y_true) |-> y_true[i] - y_pred[i]]
    IN  IF metric = "mean_squared_error"
        THEN <<Sum([i \in 1..Len(d) |-> d[i] * d[i]]), Len(d)>>
        ELSE IF metric = "mean_absolute_error"
             THEN <<Sum([i \in 1..Len(d) |-> Abs(d[i])]), Len(d)>>
        ELSE <<[i \in 1..Len(d) |-> <<Abs(d[i]), Abs(y_true[i])>>], Len(d)>>

\* y[index] for a range of positions
take(y, index) ==
    Series(RangeIndex(index.start, index.stop),
           SubSeq(y.values, index.start + 1, index.stop))

\* what cv_forecaster leaves: the forecaster, the error raised, the value
\* returned and the calls it made of the forecaster, in order
CvResult(self, err, value, calls) ==
    [self |-> self, err |-> err, value |-> value, calls |-> calls]

\* what one fold leaves: the forecaster, the error raised, the predictions,
\* the metric and the calls made of the forecaster
FoldResult(self, err, pred, value, calls) ==
    [self |-> self, err |-> err, pred |-> pred, metric_value |-> value, calls |-> calls]

\* the fold after its predict: the metric and, when asked, the recording of
\* the residuals
cv_score(pred, y, fold, metric, set_residuals, env) ==
    LET y_true == take(y, fold.test).values
        y_pred == Get(pred.value).values
        calls2 == <<[op |-> "fit", on |-> fold.train], [op |-> "predict", on |-> fold.test]>>
        calls3 == Append(calls2, [op |-> "set_out_sample_residuals", on |-> fold.test])
        \* y[test_index] - pred is a pandas Series
        residuals == [type |-> "Series",
                      values |-> [k \in 1..Len(y_true) |-> y_true[k] - y_pred[k]]]
    IN  IF pred.err # "none" THEN FoldResult(pred.self, pred.err, <<>>, <<>>, calls2)
        ELSE IF ~set_residuals
             THEN FoldResult(pred.self, "none", y_pred,
                             metric_value(metric, y_true, y_pred), calls2)
        ELSE CHOOSE result \in
                {IF stored.err # "none"
                 THEN FoldResult(stored.self, stored.err, <<>>, <<>>, calls3)
                 ELSE FoldResult(stored.self, "none", y_pred,
                                 metric_value(metric, y_true, y_pred), calls3) :
                    stored \in {set_out_sample_residuals(pred.self, residuals, TRUE,
                                                         env.seed)}} : TRUE

\* the fold after its fit: the predict of len(test_index) steps
cv_predict(fitted, y, fold, metric, set_residuals, env) ==
    IF fitted.err # "none"
    THEN FoldResult(fitted.self, fitted.err, <<>>, <<>>,
                    <<[op |-> "fit", on |-> fold.train]>>)
    ELSE CHOOSE result \in
            {cv_score(pred, y, fold, metric, set_residuals, env) :
                pred \in {predict(fitted.self, RangeLen(fold.test), None, None)}} : TRUE

\* the body of the loop for one fold: fit on y[train_index], then the rest;
\* each call is made once
cv_fold(self, y, fold, metric, set_residuals, env) ==
    CHOOSE result \in
        {cv_predict(fitted, y, fold, metric, set_residuals, env) :
            fitted \in {fit(self, take(y, fold.train), None, env)}} : TRUE

\* the loop over the folds, from fold i on; each fold is worked once and
\* the next starts from what it left
RECURSIVE cv_loop(_, _, _, _, _, _, _, _, _, _)
cv_loop(self, y, folds, i, metric, set_residuals, env, cv_predictions, cv_metrics, calls) ==
    IF i > Len(folds)
    THEN CvResult(self, "none",
                  Some([cv_metrics |-> cv_metrics, cv_predictions |-> cv_predictions]),
                  calls)
    ELSE CHOOSE result \in
            {IF fold.err # "none"
             THEN CvResult(fold.self, fold.err, None, calls \o fold.calls)
             ELSE cv_loop(fold.self, y, folds, i + 1, metric, set_residuals, env,
                          cv_predictions \o fold.pred,
                          Append(cv_metrics, fold.metric_value),
                          calls \o fold.calls) :
                fold \in {cv_fold(self, y, folds[i], metric, set_residuals, env)}} : TRUE

\* cv_forecaster once its own checks have passed
cv_folds(self, y, initial_train_size, steps, metric, allow_incomplete_fold, set_residuals, env) ==
    LET splits == time_series_spliter(_preproces_y(y), initial_train_size, steps,
                                      allow_incomplete_fold)
    IN  IF get_metric(metric) # "none" THEN CvResult(self, get_metric(metric), None, <<>>)
        ELSE IF splits.err # "none" THEN CvResult(self, splits.err, None, <<>>)
        ELSE cv_loop(self, _preproces_y(y), splits.folds, 1, metric, set_residuals, env,
                     <<>>, <<>>, <<>>)

\* cv_forecaster, were the sizes checked only after a first fit
cv_forecaster_fitting_first(self, y, initial_train_size, steps, metric, allow_incomplete_fold, set_residuals, env) ==
    LET fitted == fit(self, y, None, env)
    IN  IF _check_y(y) # "none" THEN CvResult(self, _check_y(y), None, <<>>)
        ELSE IF initial_train_size > Len(y.values)
             THEN CvResult(fitted.self, "initial_train_size", None, <<>>)
        ELSE IF initial_train_size < self.window_size
             THEN CvResult(fitted.self, "window_size", None, <<>>)
        ELSE cv_folds(self, y, initial_train_size, steps, metric, allow_incomplete_fold,
                      set_residuals, env)

\* cv_forecaster without exogenous data; set_residuals is its argument
\* set_out_sample_residuals
cv_forecaster(self, y, initial_train_size, steps, metric, allow_incomplete_fold, set_residuals, env) ==
    IF _check_y(y) # "none" THEN CvResult(self, _check_y(y), None, <<>>)
    ELSE IF initial_train_size > Len(y.values)
         THEN CvResult(self, "initial_train_size", None, <<>>)
    ELSE IF initial_train_size < self.window_size
         THEN CvResult(self, "window_size", None, <<>>)
    ELSE cv_folds(self, y, initial_train_size, steps, metric, allow_incomplete_fold,
                  set_residuals, env)

CvSeries == Series(RangeIndex(0, MaxCvLen), Observed(MaxCvLen))

\* (y, initial_train_size, steps, metric, allow_incomplete_fold,
\* set_out_sample_residuals) of the calls: every size and policy for one
\* series, a series with a missing value, a metric that is none
CvArgs ==
    {<<CvSeries, initial_train_size, steps, "mean_absolute_error",
       allow_incomplete_fold, set_residuals>> :
          initial_train_size \in 0..(MaxCvLen + 1), steps \in 1..MaxCvSteps,
          allow_incomplete_fold \in BOOLEAN, set_residuals \in BOOLEAN}
      \cup {<<Series(RangeIndex(0, 3), <<Obs(1), NaN, Obs(3)>>), 2, 1,
              "mean_absolute_error", TRUE, FALSE>>,
            <<CvSeries, MaxCvLen - 1, 1, "r2", TRUE, FALSE>>}

CvForecaster ==
    \E a \in CvArgs :
        LET y == a[1]
            initial_train_size == a[2]
            steps == a[3]
            metric == a[4]
            allow_incomplete_fold == a[5]
            set_residuals == a[6]
            env == FitEnv([w |-> "position", b |-> 1], FALSE, FALSE)
        IN  \E result \in {cv_forecaster(forecaster, y, initial_train_size, steps, metric,
                                          allow_incomplete_fold, set_residuals, env)} :
            /\ forecaster' = result.self
            /\ ret' = [op |-> "cv_forecaster",
                       args |-> [y |-> y, initial_train_size |-> initial_train_size,
                                 steps |-> steps, metric |-> metric,
                                 allow_incomplete_fold |-> allow_incomplete_fold,
                                 set_out_sample_residuals |-> set_residuals],
                       err |-> result.err, value |-> result.value,
                       calls |-> result.calls]
            /\ recorded' = IF \E k \in DOMAIN result.calls : result.calls[k].op = "fit"
                           THEN 0 ELSE recorded
            /\ latest_fit' = IF \E k \in DOMAIN result.calls : result.calls[k].op = "fit"
                             THEN (IF result.self.last_window # None
                                   THEN "returned" ELSE "raised")
                             ELSE latest_fit

NextCV == CvForecaster

SpecCV == Init /\ [][NextCV]_vars

\* the fits and predicts among the calls cross-validation made
Refits(calls) == SelectSeq(calls, LAMBDA c : c.op \in {"fit", "predict"})

\* C19: cross-validation works the folds in time order, for each fold first
\* refitting the forecaster on the fold's train range and then predicting
\* len(test_range) steps before it touches the next fold; it returns one
\* metric per fold and all the folds' predictions, and leaves the forecaster
\* fitted on the last fold's train range.  (Stated for lags 1..m and
\* initial_train_size >= 2m, where fit and predict themselves work.)
C19_FoldsInOrder ==
    (/\ ret.op = "cv_forecaster"
     /\ IsSeries(ret.args.y)
     /\ ret.args.metric \in Metrics
     /\ Len(forecaster.lags) = forecaster.max_lag
     /\ 2 * forecaster.max_lag <= ret.args.initial_train_size
     /\ ret.args.initial_train_size <= Len(ret.args.y.values)) =>
      LET a     == ret.args
          folds == time_series_spliter(a.y, a.initial_train_size, a.steps,
                                       a.allow_incomplete_fold).folds
          last  == folds[Len(folds)]
      IN  /\ ret.err = "none"
          /\ Len(Refits(ret.calls)) = 2 * Len(folds)
          /\ \A i \in DOMAIN folds :
                /\ Refits(ret.calls)[2 * i - 1] = [op |-> "fit", on |-> folds[i].train]
                /\ Refits(ret.calls)[2 * i] = [op |-> "predict", on |-> folds[i].test]
          /\ Len(Get(ret.value).cv_metrics) = Len(folds)
          /\ Len(Get(ret.value).cv_predictions)
                = Sum([i \in DOMAIN folds |-> RangeLen(folds[i].test)])
          /\ folds # <<>> =>
                /\ forecaster.fitted
                /\ forecaster.training_range = Some(<<0, last.train.stop - 1>>)

\* C20: cv_forecaster raises when initial_train_size exceeds the length of
\* the series or is below the forecaster's window_size, before any fold is
\* worked: it makes no fit and leaves the forecaster as it was.
C20_CvFailsFast ==
    [][(/\ ret'.op = "cv_forecaster"
        /\ IsSeries(ret'.args.y)
        /\ \/ ret'.args.initial_train_size > Len(ret'.args.y.values)
           \/ ret'.args.initial_train_size < forecaster.window_size) =>
          /\ ret'.err \in {"initial_train_size", "window_size"}
          /\ ret'.calls = <<>>
          /\ forecaster' = forecaster]_vars

\* a forecaster fitted by an earlier cross-validation has been refused one
\* with too small an initial_train_size
C20_Witness ==
    /\ ret.op = "cv_forecaster"
    /\ ret.err = "window_size"
    /\ forecaster.fitted
    /\ forecaster.last_window # None
-----------------------------------------------------------------------------
(* The values of the lag matrix                                            *)

\* C24: in the lag matrix built from y with maximum lag m, for every row i
\* and every configured lag k the target is y[i+m] and the column of lag k
\* holds y[i+m-k]; the columns stand in the order the lags are configured,
\* the order predict reads its feature row in from the window before the
\* target.
C24_LagMatrixValues ==
    (ret.op = "fit" /\ IsSeries(ret.args.y)) =>
      LET y  == _preproces_y(ret.args.y)
          m  == forecaster.max_lag
          XY == _create_lags(forecaster, y)
      IN  XY.err = "none" =>
            \A i \in 1..Len(XY.X) :
               /\ XY.y[i] = y.values[i + m]
               /\ Len(XY.X[i]) = Len(forecaster.lags)
               /\ \A c \in 1..Len(forecaster.lags) :
                     XY.X[i][c] = y.values[i + m - forecaster.lags[c]]
               /\ XY.X[i] = lag_row(forecaster, SubSeq(y.values, i, i + m - 1))

C24_Witness ==
    /\ ret.op = "fit"
    /\ ret.err = "none"
    /\ Len(forecaster.lags) = 2
    /\ Len(ret.args.y.values) = MaxLen
    /\ Len(_create_lags(forecaster, _preproces_y(ret.args.y)).X) = MaxLen - 2
-----------------------------------------------------------------------------
(* The bootstrap trials                                                    *)

\* the values one trial slides into its window, step after step, when it
\* starts from `values` and draws the residuals at the positions `sample`
RECURSIVE TrialPath(_, _, _, _)
TrialPath(values, residuals, sample, step) ==
    IF step > Len(sample) THEN <<>>
    ELSE LET value == regressor_predict(Get(forecaster.regressor.coef),
                                        lag_row(forecaster, values))
                        + residuals[sample[step]]
         IN  <<value>> \o TrialPath(Append(Tail(values), value), residuals,
                                    sample, step + 1)

\* C25: every bootstrap trial starts from the same initial window, none from
\* what another trial left, and within a trial the value slid in after step
\* s is the one-step prediction plus the trial's residual for step s: the
\* bands are the percentiles, over the trials, of the paths so built.
C25_TrialsIndependent ==
    (ret.op = "predict_interval" /\ ret.err = "none") =>
      LET window    == Get(predict_window(forecaster, ret.args.last_window))
          residuals == Get(Residuals(forecaster, ret.args.in_sample_residuals))
          draws     == ret.args.draws
          path(t)   == TrialPath(window.values, residuals, draws[t], 1)
          at(step)  == [t \in 1..Len(draws) |-> path(t)[step]]
          bands     == Bands(Get(ret.value).rows)
      IN  \A step \in 1..ret.args.steps :
             /\ bands[step].lower_bound = percentile(at(step), 5)
             /\ bands[step].upper_bound = percentile(at(step), 95)

\* two trials of two steps that draw different residuals at the first step
C25_Witness ==
    /\ ret.op = "predict_interval"
    /\ ret.err = "none"
    /\ ret.args.steps = 2
    /\ LET residuals == Get(Residuals(forecaster, ret.args.in_sample_residuals))
           draws     == ret.args.draws
       IN  /\ residuals[draws[1][1]] # residuals[draws[2][1]]
           /\ residuals[draws[1][1]] # 0
           /\ Bands(Get(ret.value).rows)[2].lower_bound
                 # Bands(Get(ret.value).rows)[2].upper_bound
-----------------------------------------------------------------------------
(* The fitted flag and what it promises                                    *)

\* C28: in every reachable state, also after a fit that raised part-way, a
\* fitted forecaster has its last_window and in_sample_residuals set, and
\* the stored window holds max_lag values for predict to start from.
C28_FittedConsistent ==
    forecaster.fitted =>
      /\ forecaster.last_window # None
      /\ forecaster.in_sample_residuals # None
      /\ Len(Get(forecaster.last_window).values) = forecaster.max_lag
-----------------------------------------------------------------------------
(* History independence of fit                                             *)

\* a forecaster of the same lags and regressor that has seen no call
NewlyBuilt(self) ==
    [__init__([self.regressor EXCEPT !.coef = None], IntLags(1))
        EXCEPT !.lags = self.lags, !.max_lag = self.max_lag,
               !.window_size = self.window_size]

\* what the claim compares of two fitted forecasters
FitOutcome(self) ==
    [last_window          |-> self.last_window,
     included_exog        |-> self.included_exog,
     exog_col_names       |-> self.exog_col_names,
     training_range       |-> self.training_range,
     y_index_type         |-> self.y_index_type,
     y_index_freq         |-> self.y_index_freq,
     out_sample_residuals |-> self.out_sample_residuals]

\* C29: whatever calls a forecaster has seen (fits with other series or
\* exog, residuals recorded, lags changed), a fit that returns leaves the
\* last_window, included_exog, exog column names, training range and index
\* metadata that the same fit leaves on a forecaster of the same lags that
\* has seen none, and no out-of-sample residuals.
C29_FitForgetsHistory ==
    \A y \in SeriesArgs : \A exog \in ExogArgs(y) :
       LET env   == FitEnv([w |-> "position", b |-> 1], FALSE, FALSE)
           here  == fit(forecaster, y, exog, env)
           there == fit(NewlyBuilt(forecaster), y, exog, env)
       IN  /\ here.err = "none" <=> there.err = "none"
           /\ here.err = "none" =>
                 /\ FitOutcome(here.self) = FitOutcome(there.self)
                 /\ here.self.out_sample_residuals = None

\* a forecaster fitted with exog on a calendar-free index, with residuals
\* recorded since, about to be fitted without exog
C29_Witness ==
    /\ forecaster.fitted
    /\ forecaster.included_exog
    /\ forecaster.out_sample_residuals # None
    /\ forecaster.last_window # None
    /\ \E y \in SeriesArgs :
          /\ y.index.kind = "DatetimeIndex"
          /\ fit(forecaster, y, None, FitEnv([w |-> "ones", b |-> 0], FALSE, FALSE)).err
                = "none"
-----------------------------------------------------------------------------
(* The residuals cross-validation records                                  *)

\* C26: after cv_forecaster with set_out_sample_residuals=True over k >= 1
\* folds, the out-of-sample residuals of the forecaster are those of the
\* test ranges of all k folds (fewer only by the cap), not of the last
\* fold alone.
C26_ResidualsOfAllFolds ==
    (ret.op = "cv_forecaster" /\ ret.args.set_out_sample_residuals
        /\ _check_y(ret.args.y) = "none"
        /\ ret.args.initial_train_size <= Len(ret.args.y.values)
        /\ ret.args.initial_train_size >= forecaster.window_size) =>
      LET folds == time_series_spliter(_preproces_y(ret.args.y),
                                       ret.args.initial_train_size, ret.args.steps,
                                       ret.args.allow_incomplete_fold).folds
          tested == Sum([k \in 1..Len(folds) |-> RangeLen(folds[k].test)])
      IN  Len(folds) >= 1 =>
            /\ ret.err = "none"
            /\ forecaster.out_sample_residuals # None
            /\ Len(Get(forecaster.out_sample_residuals)) = Min(tested, MaxResiduals)
-----------------------------------------------------------------------------
(* model_selection.backtesting_forecaster                                  *)

MaxBtLen == 6
MaxBtSteps == 3

\* y[last_window_start:last_window_end], were the window never advanced
\* past the train range
bt_window_of_train(y, initial_train_size, i, steps, window_size) ==
    take(y, Range(initial_train_size - window_size, initial_train_size))

\* y[last_window_start:last_window_end] of fold i
bt_window(y, initial_train_size, i, steps, window_size) ==
    LET last_window_end   == initial_train_size + i * steps
        last_window_start == (initial_train_size + i * steps) - window_size
    IN  take(y, Range(last_window_start, last_window_end))

\* the loop over range(folds), from fold i on: the predictions appended so
\* far and the calls made of the forecaster
RECURSIVE bt_loop(_, _, _, _, _, _, _, _, _, _)
bt_loop(self, y, initial_train_size, steps, window_size, folds, remainder, i, backtest_predictions, calls) ==
    IF i >= folds
    THEN CvResult(self, "none", Some(backtest_predictions), calls)
    ELSE IF i = folds - 1 /\ remainder = 0
    THEN bt_loop(self, y, initial_train_size, steps, window_size, folds, remainder,
                 i + 1, backtest_predictions, calls)
    ELSE LET last_window_y == bt_window(y, initial_train_size, i, steps, window_size)
             n     == IF i < folds - 1 THEN steps ELSE remainder
             calls1 == Append(calls, [op |-> "predict", steps |-> n,
                                      last_window |-> last_window_y])
         IN  CHOOSE result \in
                {IF pred.err # "none" THEN CvResult(pred.self, pred.err, None, calls1)
                 ELSE bt_loop(pred.self, y, initial_train_size, steps, window_size,
                              folds, remainder, i + 1,
                              backtest_predictions \o Get(pred.value).values, calls1) :
                    pred \in {predict(self, n, Some(last_window_y), None)}} : TRUE

\* backtesting_forecaster from its loop on: the concatenation, the metric
\* and the recording of the residuals
bt_folds(self, y, initial_train_size, steps, metric, set_residuals, env, calls) ==
    LET window_size == self.window_size
        folds       == (Len(y.values) - initial_train_size) \div steps + 1
        remainder   == (Len(y.values) - initial_train_size) % steps
    IN  CHOOSE result \in
          {LET backtest_predictions == Get(run.value)
               y_true == take(y, Range(initial_train_size,
                                       initial_train_size + Len(backtest_predictions))).values
               value  == Some([metric_value |-> metric_value(metric, y_true,
                                                             backtest_predictions),
                               backtest_predictions |-> backtest_predictions])
               \* y[...] - backtest_predictions is a pandas Series
               residuals == [type |-> "Series",
                             values |-> [k \in 1..Len(y_true) |->
                                           y_true[k] - backtest_predictions[k]]]
               stored == set_out_sample_residuals(run.self, residuals, TRUE, env.seed)
           IN  IF run.err # "none" THEN run
               \* np.concatenate of an empty list
               ELSE IF backtest_predictions = <<>>
                    THEN CvResult(run.self, "value_error", None, run.calls)
               ELSE IF ~set_residuals THEN CvResult(run.self, "none", value, run.calls)
               ELSE IF stored.err # "none"
                    THEN CvResult(stored.self, stored.err, None,
                                  Append(run.calls, [op |-> "set_out_sample_residuals"]))
               ELSE CvResult(stored.self, "none", value,
                             Append(run.calls, [op |-> "set_out_sample_residuals"])) :
             run \in {bt_loop(self, y, initial_train_size, steps, window_size, folds,
                              remainder, 0, <<>>, calls)}} : TRUE

\* backtesting_forecaster without exogenous data; initial_train_size is None
\* or Some(n), set_residuals is the argument set_out_sample_residuals
backtesting_forecaster(self, y, steps, metric, initial_train_size, set_residuals, env) ==
    LET y1 == _preproces_y(y)
    IN  IF _check_y(y) # "none" THEN CvResult(self, _check_y(y), None, <<>>)
        ELSE IF initial_train_size # None /\ Get(initial_train_size) > Len(y1.values)
             THEN CvResult(self, "initial_train_size", None, <<>>)
        ELSE IF initial_train_size # None /\ Get(initial_train_size) < self.window_size
             THEN CvResult(self, "window_size", None, <<>>)
        ELSE IF initial_train_size = None /\ ~self.fitted
             THEN CvResult(self, "not_fitted", None, <<>>)
        \* len(forecaster.last_window) of None, in the warning
        ELSE IF initial_train_size = None /\ self.last_window = None
             THEN CvResult(self, "type_error", None, <<>>)
        ELSE IF get_metric(metric) # "none"
             THEN CvResult(self, get_metric(metric), None, <<>>)
        ELSE IF initial_train_size = None
             THEN bt_folds(self, y1, self.window_size, steps, metric, set_residuals,
                           env, <<>>)
        ELSE CHOOSE result \in
               {IF fitted.err # "none"
                THEN CvResult(fitted.self, fitted.err, None,
                              <<[op |-> "fit", on |-> Range(0, Get(initial_train_size))]>>)
                ELSE bt_folds(fitted.self, y1, Get(initial_train_size), steps, metric,
                              set_residuals, env,
                              <<[op |-> "fit", on |-> Range(0, Get(initial_train_size))]>>) :
                  fitted \in {fit(self, take(y1, Range(0, Get(initial_train_size))),
                                  None, env)}} : TRUE

BtSeries == Series(RangeIndex(0, MaxBtLen), Observed(MaxBtLen))

\* (y, steps, metric, initial_train_size, set_out_sample_residuals) of the
\* calls: every size, and none, for one series, a series with a missing
\* value, a metric that is none
BtArgs ==
    {<<BtSeries, steps, "mean_absolute_error", initial_train_size, set_residuals>> :
          steps \in 1..MaxBtSteps,
          initial_train_size \in {None} \cup {Some(n) : n \in 0..(MaxBtLen + 1)},
          set_residuals \in BOOLEAN}
      \cup {<<Series(RangeIndex(0, 3), <<Obs(1), NaN, Obs(3)>>), 1,
              "mean_absolute_error", Some(2), FALSE>>,
            <<BtSeries, 1, "r2", Some(MaxBtLen - 1), FALSE>>}

BacktestingForecaster ==
    \E a \in BtArgs : \E predict_raises \in BOOLEAN :
        LET env == FitEnv([w |-> "position", b |-> 1], FALSE, predict_raises)
        IN  \E result \in {backtesting_forecaster(forecaster, a[1], a[2], a[3], a[4],
                                                  a[5], env)} :
            /\ forecaster' = result.self
            /\ ret' = [op |-> "backtesting_forecaster",
                       args |-> [y |-> a[1], steps |-> a[2], metric |-> a[3],
                                 initial_train_size |-> a[4],
                                 set_out_sample_residuals |-> a[5], env |-> env],
                       err |-> result.err, value |-> result.value,
                       calls |-> result.calls,
                       window_size |-> forecaster.window_size,
                       fitted |-> forecaster.fitted]
            /\ recorded' = IF \E k \in DOMAIN result.calls : result.calls[k].op = "fit"
                           THEN 0 ELSE recorded
            /\ latest_fit' = IF \E k \in DOMAIN result.calls : result.calls[k].op = "fit"
                             THEN (IF result.self.last_window # None
                                   THEN "returned" ELSE "raised")
                             ELSE latest_fit

NextBT == BacktestingForecaster

SpecBT == Init /\ [][NextBT]_vars
\* the fits and the predicts among the calls backtesting made
Fits(calls) == SelectSeq(calls, LAMBDA c : c.op = "fit")
Predicts(calls) == SelectSeq(calls, LAMBDA c : c.op = "predict")

\* the position the first forecast is made for: initial_train_size or, with
\* none, the window size
BtStart(r) ==
    IF r.args.initial_train_size = None THEN r.window_size
    ELSE Get(r.args.initial_train_size)

\* C21: backtesting with an initial_train_size fits exactly once, first of
\* all, on the first initial_train_size observations, and never again; for
\* every fold i it calls predict with a last_window of exactly window_size
\* true observations, those at positions
\* [initial_train_size + i*steps - window_size, initial_train_size + i*steps)
\* of y; with initial_train_size=None on a fitted forecaster it fits never.
C21_FitOnceTrueWindows ==
    (ret.op = "backtesting_forecaster") =>
      LET y     == ret.args.y
          start == BtStart(ret)
          steps == ret.args.steps
          ws    == ret.window_size
          p     == Predicts(ret.calls)
      IN  /\ (ret.args.initial_train_size # None /\ ret.calls # <<>>) =>
                /\ Len(Fits(ret.calls)) = 1
                /\ ret.calls[1] = [op |-> "fit", on |-> Range(0, start)]
          /\ ret.args.initial_train_size = None => Len(Fits(ret.calls)) = 0
          /\ \A k \in 1..Len(p) :
                LET first == start + (k - 1) * steps - ws
                IN  /\ first >= 0
                    /\ first + ws <= Len(y.values)
                    /\ Len(p[k].last_window.values) = ws
                    /\ p[k].last_window.index = RangeIndex(first, first + ws)
                    /\ \A j \in 1..ws :
                          p[k].last_window.values[j] = y.values[first + j]
          /\ ret.err = "none" =>
                Len(p) = Ceil(Len(y.values) - start, steps)

\* a backtest of two folds, the last one short, after one fit
C21_Witness ==
    /\ ret.op = "backtesting_forecaster"
    /\ ret.err = "none"
    /\ ret.args.initial_train_size = Some(MaxBtLen - 3)
    /\ ret.args.steps = 2
    /\ ret.window_size = 2
    /\ Len(Fits(ret.calls)) = 1
    /\ Len(Predicts(ret.calls)) = 2

\* a backtest with no initial_train_size on a fitted forecaster
C21_WitnessNoFit ==
    /\ ret.op = "backtesting_forecaster"
    /\ ret.err = "none"
    /\ ret.args.initial_train_size = None
    /\ Len(Predicts(ret.calls)) >= 2
\* C27: every call that passes backtesting's validation
\* (window_size <= initial_train_size <= len(y), steps >= 1) returns, with
\* exactly len(y) - initial_train_size predictions, the j-th the forecast
\* for position initial_train_size + j.
C27_BacktestReturnsAll ==
    (ret.op = "backtesting_forecaster"
        /\ _check_y(ret.args.y) = "none"
        /\ get_metric(ret.args.metric) = "none"
        /\ ~ret.args.env.predict_raises
        /\ ret.args.initial_train_size # None
        /\ ret.window_size <= BtStart(ret)
        /\ BtStart(ret) <= Len(ret.args.y.values)
        /\ ret.args.steps >= 1) =>
      /\ ret.err = "none"
      /\ Len(Get(ret.value).backtest_predictions)
            = Len(ret.args.y.values) - BtStart(ret)
-----------------------------------------------------------------------------
(* model_selection.grid_search_forecaster                                  *)

MaxGridLen == 6
MaxGridSteps == 2

\* what a fit of the search meets: the regressor learns the model its
\* parameters name
GridEnv(self) == FitEnv(self.regressor.params, FALSE, FALSE)

\* list(ParameterGrid(param_grid)) for a grid over b and w: the names in
\* sorted order, the last one varying fastest
ParameterGrid(param_grid) ==
    [k \in 1..(Len(param_grid.b) * Len(param_grid.w)) |->
        [b |-> param_grid.b[((k - 1) \div Len(param_grid.w)) + 1],
         w |-> param_grid.w[((k - 1) % Len(param_grid.w)) + 1]]]

RECURSIVE Product(_)
Product(s) == IF s = <<>> THEN 1 ELSE Head(s) * Product(Tail(s))

\* metrics.mean() of fractions <<numerator, denominator>>, itself a
\* fraction; the mean of no metric is NaN, the fraction <<0, 0>>
metrics_mean(metrics) ==
    LET common == Product([k \in 1..Len(metrics) |-> metrics[k][2]])
    IN  IF metrics = <<>> THEN <<0, 0>>
        ELSE <<Sum([k \in 1..Len(metrics) |->
                      metrics[k][1] * (common \div metrics[k][2])]),
               Len(metrics) * common>>

\* a < b for two means, no NaN below anything
MetricLess(a, b) ==
    IF a[2] = 0 THEN FALSE
    ELSE IF b[2] = 0 THEN TRUE
    ELSE a[1] * b[2] < b[1] * a[2]

\* the orders results.sort_values(by='metric', ascending=True) may leave the
\* rows in: ascending, rows of equal metric in any order, the rows of NaN
\* metric last, in the order they had
SortOrders(rows) ==
    {order \in [1..Len(rows) -> 1..Len(rows)] :
        /\ \A k, l \in 1..Len(rows) : k # l => order[k] # order[l]
        /\ \A k, l \in 1..Len(rows) :
              k < l =>
                /\ ~MetricLess(rows[order[l]].metric, rows[order[k]].metric)
                /\ (rows[order[k]].metric[2] = 0 /\ rows[order[l]].metric[2] = 0)
                      => order[k] < order[l]}

\* the table, were it left in the order of the evaluations
sort_values_unsorted(rows, order) == rows

\* results.sort_values(by='metric', ascending=True), in one of its orders
sort_values(rows, order) == [k \in 1..Len(rows) |-> rows[order[k]]]

\* what the search leaves: the forecaster, the error raised, the table and
\* the evaluations made, in order
GsResult(self, err, rows, evals) ==
    [self |-> self, err |-> err, rows |-> rows, evals |-> evals]

\* one evaluation: cv_forecaster or backtesting_forecaster, its residuals
\* not recorded
gs_evaluate(self, y, initial_train_size, steps, metric, method, allow_incomplete_fold) ==
    IF method = "cv"
    THEN cv_forecaster(self, y, initial_train_size, steps, metric,
                       allow_incomplete_fold, FALSE, GridEnv(self))
    ELSE backtesting_forecaster(self, y, steps, metric, Some(initial_train_size),
                                FALSE, GridEnv(self))

\* the metrics array an evaluation returns
gs_metrics(run, method) ==
    IF method = "cv" THEN Get(run.value).cv_metrics
    ELSE <<Get(run.value).metric_value>>

\* the loop over param_grid for one entry of lags_grid, from combination j on
RECURSIVE gs_param_loop(_, _, _, _, _, _, _, _, _, _, _, _)
gs_param_loop(self, y, lags, param_grid, j, initial_train_size, steps, metric, method, allow_incomplete_fold, rows, evals) ==
    IF j > Len(param_grid) THEN GsResult(self, "none", rows, evals)
    ELSE LET configured == set_params(self, param_grid[j])
             eval(run) == [lags |-> lags, params |-> param_grid[j], err |-> run.err,
                           calls |-> run.calls, self |-> run.self]
         IN  IF configured.err # "none"
             THEN GsResult(configured.self, configured.err, rows, evals)
             ELSE CHOOSE result \in
                    {IF run.err # "none"
                     THEN GsResult(run.self, run.err, rows, Append(evals, eval(run)))
                     ELSE gs_param_loop(run.self, y, lags, param_grid, j + 1,
                                        initial_train_size, steps, metric, method,
                                        allow_incomplete_fold,
                                        Append(rows,
                                               [lags |-> lags, params |-> param_grid[j],
                                                metric |-> metrics_mean(
                                                              gs_metrics(run, method))]),
                                        Append(evals, eval(run))) :
                        run \in {gs_evaluate(configured.self, y, initial_train_size,
                                             steps, metric, method,
                                             allow_incomplete_fold)}} : TRUE

\* the loop over lags_grid, from entry i on
RECURSIVE gs_lags_loop(_, _, _, _, _, _, _, _, _, _, _, _)
gs_lags_loop(self, y, lags_grid, i, param_grid, initial_train_size, steps, metric, method, allow_incomplete_fold, rows, evals) ==
    IF i > Len(lags_grid) THEN GsResult(self, "none", rows, evals)
    ELSE LET configured == set_lags(self, lags_grid[i])
         IN  IF configured.err # "none"
             THEN GsResult(configured.self, configured.err, rows, evals)
             ELSE CHOOSE result \in
                    {IF inner.err # "none" THEN inner
                     ELSE gs_lags_loop(inner.self, y, lags_grid, i + 1, param_grid,
                                       initial_train_size, steps, metric, method,
                                       allow_incomplete_fold, inner.rows, inner.evals) :
                        inner \in {gs_param_loop(configured.self, y,
                                                 configured.self.lags, param_grid, 1,
                                                 initial_train_size, steps, metric,
                                                 method, allow_incomplete_fold,
                                                 rows, evals)}} : TRUE

\* grid_search_forecaster up to its table of results
gs_search(self, y, param_grid, initial_train_size, steps, metric, lags_grid, method, allow_incomplete_fold) ==
    IF _check_y(y) # "none" THEN GsResult(self, _check_y(y), <<>>, <<>>)
    ELSE gs_lags_loop(self, _preproces_y(y),
                      IF lags_grid = None THEN <<SeqLags("ndarray", self.lags)>>
                      ELSE Get(lags_grid),
                      1, ParameterGrid(param_grid), initial_train_size, steps, metric,
                      method, allow_incomplete_fold, <<>>, <<>>)

\* the refit of return_best, were the forecaster fitted as the last
\* evaluation configured it
gs_refit_as_configured(self, y, results) ==
    IF results = <<>> THEN Raise(self, "index_error")
    ELSE fit(self, y, None, GridEnv(self))

\* the refit of return_best: the lags and parameters of the first row,
\* then a fit on the whole series
gs_refit(self, y, results) ==
    LET best_lags   == results[1].lags
        best_params == results[1].params
        with_lags   == set_lags(self, SeqLags("ndarray", best_lags))
        with_params == set_params(with_lags.self, best_params)
    IN  \* results['lags'].iloc[0] of an empty table
        IF results = <<>> THEN Raise(self, "index_error")
        ELSE IF with_lags.err # "none" THEN with_lags
        ELSE IF with_params.err # "none" THEN with_params
        ELSE fit(with_params.self, y, None, GridEnv(with_params.self))

\* the end of the search, were the best combination refitted whether asked
\* or not
gs_results_always_best(search, y, return_best, order) ==
    LET results == sort_values(search.rows, order)
        best    == gs_refit(search.self, _preproces_y(y), results)
    IN  IF search.err # "none"
        THEN [self |-> search.self, err |-> search.err, value |-> None,
              evals |-> search.evals]
        ELSE [self |-> best.self, err |-> best.err,
              value |-> IF best.err = "none" THEN Some(results) ELSE None,
              evals |-> search.evals]

\* grid_search_forecaster from its table of results on: the sort, in the
\* order sort_values leaves the rows in, and the refit of return_best
gs_results(search, y, return_best, order) ==
    LET results == sort_values(search.rows, order)
    IN  IF search.err # "none"
        THEN [self |-> search.self, err |-> search.err, value |-> None,
              evals |-> search.evals]
        ELSE IF ~return_best
             THEN [self |-> search.self, err |-> "none", value |-> Some(results),
                   evals |-> search.evals]
        ELSE CHOOSE refitted \in
               {[self |-> best.self, err |-> best.err,
                 value |-> IF best.err = "none" THEN Some(results) ELSE None,
                 evals |-> search.evals] :
                   best \in {gs_refit(search.self, _preproces_y(y), results)}} : TRUE

GridSeries == Series(RangeIndex(0, MaxGridLen), Observed(MaxGridLen))

ParamGrids ==
    {[b |-> <<0, 1>>, w |-> <<"ones">>], [b |-> <<1>>, w |-> <<"position", "ones">>]}

LagsGrids ==
    {None, Some(<<IntLags(1), IntLags(2)>>), Some(<<IntLags(2), ListLags(<<1>>)>>),
     Some(<<IntLags(1), IntLags(0)>>)}

\* (y, param_grid, initial_train_size, steps, metric, lags_grid, method,
\* return_best) of the calls: every grid over a train range long enough for
\* every lag set, the shortest and the longest train range for one grid, a
\* series with a missing value, a metric that is none
GridArgs ==
    {<<GridSeries, param_grid, MaxGridLen - MaxGridSteps, MaxGridSteps,
       "mean_absolute_error", lags_grid, method, return_best>> :
          param_grid \in ParamGrids, lags_grid \in LagsGrids,
          method \in {"cv", "backtesting"}, return_best \in BOOLEAN}
      \cup
    {<<GridSeries, [b |-> <<0, 1>>, w |-> <<"ones">>], initial_train_size, 1,
       "mean_absolute_error", lags_grid, method, return_best>> :
          initial_train_size \in {MaxGridLen - MaxGridSteps - 1, MaxGridLen},
          lags_grid \in {None, Some(<<IntLags(2)>>)},
          method \in {"cv", "backtesting"}, return_best \in BOOLEAN}
      \cup {<<Series(RangeIndex(0, 3), <<Obs(1), NaN, Obs(3)>>),
              [b |-> <<0>>, w |-> <<"ones">>], 2, 1, "mean_absolute_error", None,
              "cv", TRUE>>,
            <<GridSeries, [b |-> <<0>>, w |-> <<"ones">>], MaxGridLen - 2, 1, "r2",
              None, "cv", TRUE>>}

\* grid_search_forecaster without exogenous data, allow_incomplete_fold at
\* its default
GridSearchForecaster ==
    \E a \in GridArgs :
    \E search \in {gs_search(forecaster, a[1], a[2], a[3], a[4], a[5], a[6], a[7], TRUE)} :
    \E order \in SortOrders(IF search.err = "none" THEN search.rows ELSE <<>>) :
    \E result \in {gs_results(search, a[1], a[8], order)} :
        LET fits == \/ \E k \in DOMAIN result.evals :
                         \E c \in DOMAIN result.evals[k].calls :
                            result.evals[k].calls[c].op = "fit"
                    \/ (search.err = "none" /\ a[8] /\ search.rows # <<>>)
        IN  /\ forecaster' = result.self
            /\ ret' = [op |-> "grid_search_forecaster",
                       args |-> [y |-> a[1], param_grid |-> a[2],
                                 initial_train_size |-> a[3], steps |-> a[4],
                                 metric |-> a[5], lags_grid |-> a[6], method |-> a[7],
                                 return_best |-> a[8], order |-> order],
                       err |-> result.err, value |-> result.value,
                       evals |-> result.evals, lags |-> forecaster.lags]
            /\ recorded' = IF fits THEN 0 ELSE recorded
            /\ latest_fit' = IF fits
                             THEN (IF result.self.last_window # None
                                   THEN "returned" ELSE "raised")
                             ELSE latest_fit

NextGrid == GridSearchForecaster

SpecGrid == Init /\ [][NextGrid]_vars
\* the lags_grid of a search as arrays: the forecaster's own lags for None
GridLags(r) ==
    IF r.args.lags_grid = None THEN <<r.lags>>
    ELSE [i \in 1..Len(Get(r.args.lags_grid)) |-> lags_array(Get(r.args.lags_grid)[i])]

\* C22: grid_search_forecaster evaluates every combination of
\* lags_grid x param_grid exactly once and returns one row per combination;
\* the rows are ordered by mean metric ascending and the first row has the
\* least mean metric of all.
C22_EveryCombinationRanked ==
    (ret.op = "grid_search_forecaster" /\ ret.err = "none") =>
      LET rows   == Get(ret.value)
          lags   == GridLags(ret)
          params == ParameterGrid(ret.args.param_grid)
      IN  /\ Len(rows) = Len(lags) * Len(params)
          /\ Len(ret.evals) = Len(lags) * Len(params)
          /\ \A i \in 1..Len(lags) : \A j \in 1..Len(params) :
                /\ ret.evals[(i - 1) * Len(params) + j].lags = lags[i]
                /\ ret.evals[(i - 1) * Len(params) + j].params = params[j]
                /\ Cardinality({k \in 1..Len(rows) :
                                   rows[k].lags = lags[i] /\ rows[k].params = params[j]})
                      = 1
          /\ \A k, l \in 1..Len(rows) :
                k < l => ~MetricLess(rows[l].metric, rows[k].metric)
          /\ \A k \in 1..Len(rows) : ~MetricLess(rows[k].metric, rows[1].metric)

\* a search of four combinations whose best is neither the first nor the
\* last one evaluated
C22_Witness ==
    /\ ret.op = "grid_search_forecaster"
    /\ ret.err = "none"
    /\ Len(Get(ret.value)) = 4
    /\ ret.args.order[1] \in {2, 3}
    /\ MetricLess(Get(ret.value)[1].metric, Get(ret.value)[4].metric)

\* C23: after grid_search_forecaster with return_best=True the lags and the
\* regressor parameters of the forecaster are those of the top-ranked
\* combination, and the forecaster is fitted on the whole series: its
\* last_window is the tail of the full y, not of a fold's train range.
C23_BestIsRefitted ==
    (ret.op = "grid_search_forecaster" /\ ret.err = "none" /\ ret.args.return_best) =>
      LET best   == Get(ret.value)[1]
          y      == ret.args.y
          n      == Len(y.values)
          window == Get(forecaster.last_window)
      IN  /\ forecaster.lags = best.lags
          /\ forecaster.max_lag = SeqMax(best.lags)
          /\ forecaster.window_size = SeqMax(best.lags)
          /\ forecaster.regressor.params = best.params
          /\ forecaster.fitted
          /\ forecaster.training_range = Some(<<0, n - 1>>)
          /\ forecaster.last_window # None
          /\ Len(window.values) >= 1
          /\ window = iloc_tail(y.index, y.values, Len(window.values))

\* a search whose best combination is not the last one evaluated
C23_Witness ==
    /\ ret.op = "grid_search_forecaster"
    /\ ret.err = "none"
    /\ ret.args.return_best
    /\ Len(ret.evals) = 4
    /\ Get(ret.value)[1].lags # ret.evals[4].lags
    /\ Get(ret.value)[1].params # ret.evals[4].params

\* C30: grid_search_forecaster with return_best=False does not restore the
\* forecaster: whatever its configuration before, its lags, max_lag and
\* window_size are those of the last entry of lags_grid, its regressor
\* parameters those of the last combination evaluated, and its fitted state
\* the one the last evaluation left.
C30_LeftAsLastEvaluated ==
    (ret.op = "grid_search_forecaster" /\ ret.err = "none" /\ ~ret.args.return_best) =>
      LET lags   == GridLags(ret)
          params == ParameterGrid(ret.args.param_grid)
          last   == ret.evals[Len(ret.evals)]
      IN  /\ forecaster.lags = lags[Len(lags)]
          /\ forecaster.max_lag = SeqMax(lags[Len(lags)])
          /\ forecaster.window_size = SeqMax(lags[Len(lags)])
          /\ forecaster.regressor.params = params[Len(params)]
          /\ forecaster = last.self
          /\ last.lags = lags[Len(lags)]
          /\ last.params = params[Len(params)]

\* a search that leaves the forecaster on a combination that is not the
\* best, fitted on a train range, with lags other than those it came with
C30_Witness ==
    /\ ret.op = "grid_search_forecaster"
    /\ ret.err = "none"
    /\ ~ret.args.return_best
    /\ Len(ret.evals) = 4
    /\ ret.args.order[1] # 4
    /\ ret.lags # forecaster.lags
    /\ forecaster.fitted
    /\ forecaster.training_range # Some(<<0, Len(ret.args.y.values) - 1>>)
====
